---- MODULE Spec2Model ----
(***************************************************************************)
(* PersonaMeetBot (src/persona_meet_bot.py): the session orchestrator      *)
(* PersonaMeetBot.start, the toggle controller (_disable_with_retry,       *)
(* _enable_toggle), the speech task (_schedule_bot_speech), the            *)
(* end-of-meeting monitor (_monitor_meeting_end) and the finalize step     *)
(* (_stop_and_save_recording).                                             *)
(*                                                                         *)
(* One step of the model is the code between two awaits of one asyncio     *)
(* task.  A fixed sleep is folded into the step before it.  The page is    *)
(* the environment: every browser call draws its outcome (the value it     *)
(* returns, or that it throws) when it is made.                            *)
(***************************************************************************)
EXTENDS Integers, Sequences, FiniteSets, TLC

\* ---- program constants ------------------------------------------------
PrejoinPolls == 80
JoinAttempts == 40
RecordingAttempts == 30
PrejoinToggleAttempts == 8
InMeetingToggleAttempts == 5
EnableAttempts == 5

\* ---- bounds of the model ----------------------------------------------
\* click coordinates a locator query can return
MaxPos == 2

Pos == 1..MaxPos

\* ---- values -------------------------------------------------------------
\* result of page.evaluate(JS_FIND_TOGGLE, type): null or {state, x, y}
NotFound == [state |-> "none", x |-> 0]
LocResults == {NotFound} \cup [state : {"on", "off", "unknown"}, x : Pos]

\* page.url, by what the monitor's two string tests make of it
Urls == {"meeting", "other_meeting", "landing", "outside"}
StartsWithMeet(u) == u \in {"meeting", "other_meeting", "landing"}
HasLanding(u) == u = "landing"

\* a poll of the monitor: did the page query return (alive), what
\* JS_IS_MEETING_OVER returned (text), what page.url was (url); text is
\* not read when the query throws, url is not read when the text is there
NotPolled == [alive |-> TRUE, text |-> FALSE, url |-> "meeting"]
Polls == {[alive |-> FALSE, text |-> FALSE, url |-> "meeting"],
          [alive |-> TRUE, text |-> TRUE, url |-> "meeting"]}
         \cup [alive : {TRUE}, text : {FALSE}, url : Urls]

IdleCall == [fn |-> "none", typ |-> "none", max |-> 0, attempt |-> 0,
             pc |-> "idle", info |-> NotFound, result |-> FALSE,
             caller |-> "none"]
NoObs == [queries |-> 0, waits |-> 0, clicks |-> 0, clickPos |-> 0,
          decisive |-> 0, sawOn |-> FALSE]

VARIABLES
    pc,               \* position of PersonaMeetBot.start
    path,             \* how finalize was entered: "none", "success", "handler"
    iter,             \* loop variable of the polling loop in progress
    bot_active,       \* self.bot_active
    recording_active, \* self.recording_active
    audio_data_url,   \* self._audio_data_url is set (not None)
    call,             \* the toggle call in progress (frame of the coroutine)
    spPc,             \* position of _schedule_bot_speech
    monPc,            \* position of _monitor_meeting_end
    last_url,         \* local last_url of the monitor
    seen,             \* what the last poll of the monitor read from the page
    obs,              \* history of the toggle call in progress
    hist,             \* history of the run
    \* the page (INIT_SCRIPT), recording system and WebRTC interception
    recCtx,           \* recCtx and recDest exist
    mediaRecorder,    \* the recorder mediaRecorder refers to, by its state
    onstop,           \* mediaRecorder.onstop is set
    recordedChunks,   \* recordedChunks, each chunk by its size
    totalRecBytes,    \* totalRecBytes
    isRecording,      \* isRecording
    connectedTrackIds,\* connectedTrackIds
    tracks,           \* the remote tracks: delivery, end, sources in the mix
    rh,               \* history of the recorder: calls, results, arrivals
    \* the page (INIT_SCRIPT), virtual audio system
    audioContext,     \* audioContext, by its state, or "null"
    audioDestination, \* audioDestination, by the order it was made in; 0: null
    virtualStream,    \* virtualStream: the destination it belongs to, active
    gainNode,         \* gainNode exists
    silentOscillator, \* silentOscillator exists
    songSource,       \* songSource, by the playSong call that made it; 0: null
    songBuffer,       \* songBuffer exists
    isSpeaking,       \* isSpeaking
    resuming,         \* gesture handlers that await audioContext.resume()
    song,             \* the playSong calls: position and result of each
    mh,               \* history of the virtual audio system
    \* the document and the toggle locator (JS_FIND_TOGGLE)
    els,              \* the elements querySelectorAll returns, in document order
    findType,         \* the argument of the last JS_FIND_TOGGLE call, or "none"
    findResult        \* what that call returned

orchVars == <<pc, path, iter, bot_active, recording_active, audio_data_url,
              call, spPc, monPc, last_url, seen, obs, hist>>

recVars == <<recCtx, mediaRecorder, onstop, recordedChunks, totalRecBytes,
             isRecording, connectedTrackIds, tracks, rh>>

micVars == <<audioContext, audioDestination, virtualStream, gainNode,
             silentOscillator, songSource, songBuffer, isSpeaking, resuming,
             song, mh>>

locVars == <<els, findType, findResult>>

pageVars == <<recVars, micVars, locVars>>

vars == <<orchVars, pageVars>>

\* ---- values of the page ------------------------------------------------------
\* bounds of the recording system: remote tracks, track events per track,
\* chunk events per recorder (before the last one, which its stop delivers),
\* and chunk sizes
MaxTracks == 3
MaxDeliveries == 2
MaxChunks == 2
MaxChunkSize == 2
\* recorders made in the life of one page
MaxRecorders == 2
\* remote tracks that arrive where the recorder and the mixer run together
MaxMixed == 2

TrackIds == 1..MaxTracks
ChunkSizes == 0..MaxChunkSize
\* the number of audio tracks of recDest.stream
DestTracks == {0, 1}

\* a remote audio track: the track events that delivered it, whether it has
\* ended, and the sources made of it that are connected to recDest
NewTrack == [deliveries |-> 0, ended |-> FALSE, sources |-> 0]
\* what stopRecording resolves to: null, or the data URL of the blob
Null == [null |-> TRUE, data |-> <<>>]
\* the history of the present recorder: the chunk events it has delivered, the
\* startRecording call when it was the last operation (result, whether it
\* made a recorder, the statement that decided the result, the audio tracks
\* it found in recDest.stream, the track ids connected at the call, the
\* chunks of the buffer it replaced), the last stopRecording (state, result, mediaRecorder and
\* isRecording at the call, whether a platform step of it failed); and of the
\* page: whether an earlier recorder is still capturing, and how many
\* recorders were made
NoRecHist == [arrivals |-> <<>>, start |-> "none", created |-> FALSE,
              why |-> "none", destTracks |-> 0, connected |-> {},
              discarded |-> 0,
              stop |-> "idle", value |-> Null, callRec |-> "null",
              callFlag |-> FALSE, failed |-> FALSE, orphan |-> FALSE,
              made |-> 0]

\* bounds of the virtual audio system: playSong calls, gesture handlers that
\* wait at one time, real devices in a list
MaxCalls == 2
MaxGestures == 2
MaxDevices == 2

Callers == 1..MaxCalls
NoStream == [dest |-> 0, active |-> FALSE]
NoCall == [pc |-> "idle", result |-> FALSE, overlapped |-> FALSE,
           sawBuffer |-> FALSE]

\* a track of a stream: its kind, and whether a real device produces it
VirtualTrack == [kind |-> "audio", real |-> FALSE]
RealTrack(k) == [kind |-> k, real |-> TRUE]
Constraints == [audio : BOOLEAN, video : BOOLEAN]
Rejected == [ok |-> FALSE, tracks |-> {}]

\* devices as enumerateDevices lists them
Kinds == {"audioinput", "videoinput", "audiooutput"}
RealDevices == [deviceId : {"default"}, kind : Kinds]
VirtualDevice == [deviceId |-> "virtual-persona-mic", kind |-> "audioinput"]
RealLists == UNION {[1..n -> RealDevices] : n \in 0..MaxDevices}

\* the history of the virtual audio system: the nodes made, the state of the
\* context when the oscillator was started, the stream the last acquire
\* returned, whether a consumer stopped the track of the stream, the last
\* getUserMedia (constraints, result), whether the real device was asked for
\* audio by a call that requested audio, the last enumerateDevices (real list,
\* result), and the clip loads of playSong
NoMicHist == [made |-> [ctx |-> 0, dest |-> 0, gain |-> 0, osc |-> 0],
              oscState |-> "none", acquired |-> NoStream,
              stopped |-> FALSE,
              constraints |-> [audio |-> FALSE, video |-> FALSE],
              result |-> Rejected, askedRealAudio |-> FALSE,
              real |-> <<>>, devices |-> <<>>,
              fetches |-> 0, decodes |-> 0]

\* the page after INIT_SCRIPT has run
PageInit ==
    /\ audioContext = "null"
    /\ audioDestination = 0
    /\ virtualStream = NoStream
    /\ gainNode = FALSE
    /\ silentOscillator = FALSE
    /\ songSource = 0
    /\ songBuffer = FALSE
    /\ isSpeaking = FALSE
    /\ resuming = 0
    /\ song = [c \in Callers |-> NoCall]
    /\ mh = NoMicHist
    /\ recCtx = FALSE
    /\ mediaRecorder = "null"
    /\ onstop = FALSE
    /\ recordedChunks = <<>>
    /\ totalRecBytes = 0
    /\ isRecording = FALSE
    /\ connectedTrackIds = {}
    /\ tracks = [t \in TrackIds |-> NewTrack]
    /\ rh = NoRecHist
    /\ els = <<>>
    /\ findType = "none"
    /\ findResult = NotFound

NoHist == [finalizeCalls |-> 0, stopCalls |-> 0, artifacts |-> 0,
           cleanupCalls |-> 0, failPhase |-> "none", failKind |-> "none",
           joinClicks |-> 0, recTried |-> FALSE, recForced |-> FALSE,
           recLast |-> "none", joinDismiss |-> "none",
           everActive |-> FALSE, mainExhausted |-> FALSE,
           spLog |-> <<>>, spPlay |-> "none", spExc |-> FALSE,
           spClicked |-> FALSE, spSkipped |-> FALSE, spEnableAttempt |-> 0,
           endWhilePlaying |-> FALSE, stopOutcome |-> "none",
           launched |-> "none", closed |-> {}, closeFailed |-> {}]

Init ==
    /\ pc = "check_url"
    /\ path = "none"
    /\ iter = 0
    /\ bot_active = FALSE
    /\ recording_active = FALSE
    /\ audio_data_url = FALSE
    /\ call = IdleCall
    /\ spPc = "idle"
    /\ monPc = "idle"
    /\ last_url = "meeting"
    /\ seen = NotPolled
    /\ obs = NoObs
    /\ hist = NoHist
    /\ PageInit

\* ---- the exception handler of start -----------------------------------
\* faulty variant: the handler goes straight to the finally block
HandlerEntry_skipsFinalize == "cleanup"

\* except Exception: ... await self._stop_and_save_recording()
HandlerEntry == "finalize"

\* an exception leaves phase ph of the try block of start
Raise(ph, kind) ==
    /\ pc' = HandlerEntry
    /\ path' = "handler"
    /\ hist' = [hist EXCEPT !.failPhase = ph, !.failKind = kind]

\* ---- start: URL check, launch, setup, navigation ------------------------
\* if not self._is_valid_meet_url(self.meet_url): return
is_valid_meet_url ==
    /\ pc = "check_url"
    /\ \E valid \in BOOLEAN :
          pc' = IF valid THEN "launch" ELSE "rejected"
    /\ UNCHANGED <<path, iter, bot_active, recording_active, audio_data_url,
                   call, spPc, monPc, last_url, seen, obs, hist>>
    /\ UNCHANGED pageVars

\* how far _launch_browser gets: async_playwright().start() throws; both
\* launch_persistent_context calls throw; new_page throws; it returns
LaunchSteps == {"none", "playwright", "context", "page"}

\* self.playwright = ...; self.context = ...; self.page = ...
launch_browser ==
    /\ pc = "launch"
    /\ \E made \in LaunchSteps :
          IF made = "page"
          THEN /\ pc' = "setup"
               /\ hist' = [hist EXCEPT !.launched = made]
               /\ UNCHANGED path
          ELSE /\ pc' = HandlerEntry
               /\ path' = "handler"
               /\ hist' = [hist EXCEPT !.failPhase = "launch",
                                       !.failKind = "throw",
                                       !.launched = made]
    /\ UNCHANGED <<iter, bot_active, recording_active, audio_data_url, call,
                   spPc, monPc, last_url, seen, obs>>
    /\ UNCHANGED pageVars

\* self._audio_data_url = None, or the data URL of the audio file
setup_page ==
    /\ pc = "setup"
    /\ \E ok \in BOOLEAN, hasAudio \in BOOLEAN :
          /\ audio_data_url' = hasAudio
          /\ IF ok
             THEN pc' = "navigate" /\ UNCHANGED <<path, hist>>
             ELSE Raise("setup", "throw")
    /\ UNCHANGED <<iter, bot_active, recording_active, call, spPc, monPc,
                   last_url, seen, obs>>
    /\ UNCHANGED pageVars

navigate_to_meet ==
    /\ pc = "navigate"
    /\ \E ok \in BOOLEAN :
          IF ok
          THEN pc' = "prejoin" /\ UNCHANGED <<path, hist>>
          ELSE Raise("navigate", "throw")
    /\ iter' = 0
    /\ UNCHANGED <<bot_active, recording_active, audio_data_url, call, spPc,
                   monPc, last_url, seen, obs>>
    /\ UNCHANGED pageVars

\* ---- _wait_for_prejoin_ui ------------------------------------------------
\* faulty variant: the loop falls through and the function returns
PrejoinLoopExit_returns == "return"

\* what falling out of the polling loop does: raise TimeoutError(...)
PrejoinLoopExit == "raise"

\* one iteration of the for loop; an evaluate that throws counts as one
\* that found nothing (except Exception: pass)
wait_for_prejoin_ui ==
    /\ pc = "prejoin"
    /\ iter < PrejoinPolls
    /\ \E ok \in BOOLEAN, found \in BOOLEAN :
          IF ok /\ found
          THEN pc' = "fill_name" /\ iter' = 0
          ELSE pc' = pc /\ iter' = iter + 1
    /\ UNCHANGED <<path, bot_active, recording_active, audio_data_url, call,
                   spPc, monPc, last_url, seen, obs, hist>>
    /\ UNCHANGED pageVars

wait_for_prejoin_ui_timeout ==
    /\ pc = "prejoin"
    /\ iter >= PrejoinPolls
    /\ IF PrejoinLoopExit = "raise"
       THEN Raise("prejoin", "timeout")
       ELSE pc' = "fill_name" /\ UNCHANGED <<path, hist>>
    /\ UNCHANGED <<iter, bot_active, recording_active, audio_data_url, call,
                   spPc, monPc, last_url, seen, obs>>
    /\ UNCHANGED pageVars

\* ---- _fill_name_if_needed: best effort, every failure is swallowed -----
fill_name_if_needed ==
    /\ pc = "fill_name"
    /\ pc' = "mic1"
    /\ UNCHANGED <<path, iter, bot_active, recording_active, audio_data_url,
                   call, spPc, monPc, last_url, seen, obs, hist>>
    /\ UNCHANGED pageVars

\* ---- toggle controller ----------------------------------------------------
\* a caller begins _disable_with_retry(typ, max) or _enable_toggle(typ)
BeginCall(fn, typ, max, caller) ==
    [fn |-> fn, typ |-> typ, max |-> max, attempt |-> 1, pc |-> "query",
     info |-> NotFound, result |-> FALSE, caller |-> caller]

Decisive(info) == info.state \in {"on", "off"}

\* faulty variant: running out of attempts raises instead of returning False
DisableLoopEnd_raises(attempt, max) ==
    IF attempt < max
    THEN [pc |-> "query", attempt |-> attempt + 1, result |-> FALSE, waits |-> 1]
    ELSE [pc |-> "raise", attempt |-> attempt, result |-> FALSE, waits |-> 0]

\* faulty variant: the loop makes one pass more than max_attempts
DisableLoopEnd_oneMore(attempt, max) ==
    IF attempt <= max
    THEN [pc |-> "query", attempt |-> attempt + 1, result |-> FALSE, waits |-> 1]
    ELSE [pc |-> "ret", attempt |-> attempt, result |-> FALSE, waits |-> 0]

\* the end of an iteration of the loop of _disable_with_retry that neither
\* returned nor clicked: sleep(1.5) and the next attempt if there is one,
\* else the "return False" after the loop
DisableLoopEnd(attempt, max) ==
    IF attempt < max
    THEN [pc |-> "query", attempt |-> attempt + 1, result |-> FALSE, waits |-> 1]
    ELSE [pc |-> "ret", attempt |-> attempt, result |-> FALSE, waits |-> 0]

\* what one iteration does with the result of its locator query
DisableIteration(info, attempt, max) ==
    CASE info.state = "none" -> DisableLoopEnd(attempt, max)
      [] info.state = "off" ->
            [pc |-> "ret", attempt |-> attempt, result |-> TRUE, waits |-> 0]
      [] info.state = "on" ->
            [pc |-> "click", attempt |-> attempt, result |-> FALSE, waits |-> 0]
      [] OTHER -> DisableLoopEnd(attempt, max)

\* faulty variant: the click is followed by another pass of the loop
DisableAfterClick_retries(attempt, max) == DisableLoopEnd(attempt, max)

\* after the click of _disable_with_retry: sleep(0.4); return True
DisableAfterClick(attempt, max) ==
    [pc |-> "ret", attempt |-> attempt, result |-> TRUE, waits |-> 0]

\* the end of an iteration of the loop of _enable_toggle (for attempt in
\* range(1, 6)): the next attempt, or the "return False" after the loop
EnableLoopEnd(attempt) ==
    IF attempt < EnableAttempts
    THEN [pc |-> "query", attempt |-> attempt + 1, result |-> FALSE]
    ELSE [pc |-> "ret", attempt |-> attempt, result |-> FALSE]

EnableIteration(info, attempt) ==
    CASE info.state = "none" -> EnableLoopEnd(attempt)
      [] info.state = "on" ->
            [pc |-> "ret", attempt |-> attempt, result |-> TRUE]
      [] info.state = "off" ->
            [pc |-> "click", attempt |-> attempt, result |-> FALSE]
      [] OTHER -> EnableLoopEnd(attempt)

\* faulty variant: the click is trusted, whatever the re-query reports
EnableVerify_trustsClick(new_info, attempt) ==
    [pc |-> "ret", attempt |-> attempt, result |-> TRUE]

\* the re-query after the click of _enable_toggle
EnableVerify(new_info, attempt) ==
    IF new_info.state = "on"
    THEN [pc |-> "ret", attempt |-> attempt, result |-> TRUE]
    ELSE EnableLoopEnd(attempt)

\* faulty variant: the position of the call's first click is kept and used again
ClickTarget_kept(info) == IF obs.clickPos # 0 THEN obs.clickPos ELSE info.x

\* the position page.mouse.click is given: that of the query of this iteration
ClickTarget(info) == info.x

\* info is dead once an iteration ends without a click or a "return True"
LiveInfo(info, n) == IF n.pc = "click" \/ n.result THEN info ELSE NotFound

ToggleFrame == <<pc, path, iter, bot_active, recording_active, audio_data_url,
                 spPc, monPc, last_url, seen>>

\* info = await self.page.evaluate(JS_FIND_TOGGLE, button_type), and the
\* branch of the loop body taken on it
disable_with_retry_query ==
    /\ call.fn = "disable"
    /\ call.pc = "query"
    /\ \E ok \in BOOLEAN, info \in LocResults :
          IF ~ok
          THEN /\ call' = [call EXCEPT !.pc = "raise"]
               /\ UNCHANGED obs
          ELSE LET n == DisableIteration(info, call.attempt, call.max) IN
               /\ call' = [call EXCEPT !.pc = n.pc, !.attempt = n.attempt,
                                       !.result = n.result,
                                       !.info = LiveInfo(info, n)]
               /\ obs' = [obs EXCEPT
                            !.queries = @ + 1,
                            !.waits = @ + n.waits,
                            !.decisive = @ + (IF Decisive(info) THEN 1 ELSE 0),
                            !.sawOn = @ \/ info.state = "on"]
    /\ UNCHANGED hist
    /\ UNCHANGED ToggleFrame
    /\ UNCHANGED pageVars

\* await self.page.mouse.click(info["x"], info["y"]); sleep(0.4); return True
disable_with_retry_click ==
    /\ call.fn = "disable"
    /\ call.pc = "click"
    /\ obs' = [obs EXCEPT !.clicks = @ + 1, !.clickPos = ClickTarget(call.info)]
    /\ hist' = [hist EXCEPT !.spClicked = @ \/ call.caller = "speech"]
    /\ \E ok \in BOOLEAN :
          IF ~ok
          THEN call' = [call EXCEPT !.pc = "raise"]
          ELSE LET n == DisableAfterClick(call.attempt, call.max) IN
               call' = [call EXCEPT !.pc = n.pc, !.attempt = n.attempt,
                                    !.result = n.result,
                                    !.info = LiveInfo(call.info, n)]
    /\ UNCHANGED ToggleFrame
    /\ UNCHANGED pageVars

\* info = await self.page.evaluate(JS_FIND_TOGGLE, button_type), and the
\* branch of the loop body taken on it (with its sleep(1))
enable_toggle_query ==
    /\ call.fn = "enable"
    /\ call.pc = "query"
    /\ \E ok \in BOOLEAN, info \in LocResults :
          IF ~ok
          THEN /\ call' = [call EXCEPT !.pc = "raise"]
               /\ UNCHANGED obs
          ELSE LET n == EnableIteration(info, call.attempt) IN
               /\ call' = [call EXCEPT !.pc = n.pc, !.attempt = n.attempt,
                                       !.result = n.result,
                                       !.info = LiveInfo(info, n)]
               /\ obs' = [obs EXCEPT
                            !.queries = @ + 1,
                            !.sawOn = @ \/ info.state = "on"]
    /\ UNCHANGED hist
    /\ UNCHANGED ToggleFrame
    /\ UNCHANGED pageVars

\* await self.page.mouse.click(info["x"], info["y"]); sleep(1.5)
enable_toggle_click ==
    /\ call.fn = "enable"
    /\ call.pc = "click"
    /\ obs' = [obs EXCEPT !.clicks = @ + 1, !.clickPos = ClickTarget(call.info)]
    /\ hist' = [hist EXCEPT !.spClicked = @ \/ call.caller = "speech"]
    /\ \E ok \in BOOLEAN :
          call' = [call EXCEPT !.pc = IF ok THEN "verify" ELSE "raise"]
    /\ UNCHANGED ToggleFrame
    /\ UNCHANGED pageVars

\* new_info = await self.page.evaluate(JS_FIND_TOGGLE, button_type)
enable_toggle_verify ==
    /\ call.fn = "enable"
    /\ call.pc = "verify"
    /\ \E ok \in BOOLEAN, new_info \in LocResults :
          IF ~ok
          THEN /\ call' = [call EXCEPT !.pc = "raise"]
               /\ UNCHANGED obs
          ELSE LET n == EnableVerify(new_info, call.attempt) IN
               /\ call' = [call EXCEPT !.pc = n.pc, !.attempt = n.attempt,
                                       !.result = n.result,
                                       !.info = LiveInfo(new_info, n)]
               /\ obs' = [obs EXCEPT
                            !.queries = @ + 1,
                            !.sawOn = @ \/ new_info.state = "on"]
    /\ UNCHANGED hist
    /\ UNCHANGED ToggleFrame
    /\ UNCHANGED pageVars

\* ---- start: the four toggle call sites of the orchestrator ---------------
\* await self._disable_with_retry("microphone", 8) ... ("camera", 5)
SiteType(p) == IF p \in {"mic1", "mic2"} THEN "microphone" ELSE "camera"
SiteAttempts(p) ==
    IF p \in {"mic1", "cam1"} THEN PrejoinToggleAttempts
    ELSE InMeetingToggleAttempts
\* faulty variant: the in-meeting re-verification is begun again after the camera
SiteNext_repeats(p) ==
    CASE p = "mic1" -> "cam1"
      [] p = "cam1" -> "join_dismiss"
      [] p = "mic2" -> "cam2"
      [] OTHER -> "mic2"

\* the statement after the call; the value returned is not looked at
SiteNext(p) ==
    CASE p = "mic1" -> "cam1"
      [] p = "cam1" -> "join_dismiss"
      [] p = "mic2" -> "cam2"
      [] OTHER -> "start_rec"

ToggleSites == {"mic1", "cam1", "mic2", "cam2"}

start_disable ==
    /\ pc \in ToggleSites
    /\ call.fn = "none"
    /\ call' = BeginCall("disable", SiteType(pc), SiteAttempts(pc), "main")
    /\ obs' = NoObs
    /\ hist' = [hist EXCEPT !.joinDismiss = "none"]
    /\ UNCHANGED ToggleFrame
    /\ UNCHANGED pageVars

start_disable_return ==
    /\ pc \in ToggleSites
    /\ call.caller = "main"
    /\ call.pc \in {"ret", "raise"}
    /\ IF call.pc = "raise"
       THEN Raise(pc, "throw")
       ELSE /\ pc' = SiteNext(pc)
            /\ hist' = [hist EXCEPT !.mainExhausted = @ \/ ~call.result]
            /\ UNCHANGED path
    /\ iter' = 0
    /\ call' = IdleCall
    /\ obs' = NoObs
    /\ UNCHANGED <<bot_active, recording_active, audio_data_url, spPc, monPc,
                   last_url, seen>>
    /\ UNCHANGED pageVars

\* ---- _click_join -----------------------------------------------------------
\* what falling out of the polling loop does: raise TimeoutError(...)
JoinLoopExit == "raise"

\* faulty variant: an exception of the dismissal leaves _click_join
DismissOnException_raises == "raise"

\* except Exception: pass
DismissOnException == "pass"

\* try: await self.page.evaluate(JS_DISMISS_POPUPS) except Exception: pass
click_join_dismiss ==
    /\ pc = "join_dismiss"
    /\ iter < JoinAttempts
    /\ \E ok \in BOOLEAN :
          IF ~ok /\ DismissOnException = "raise"
          THEN /\ pc' = HandlerEntry
               /\ path' = "handler"
               /\ hist' = [hist EXCEPT !.failPhase = "join",
                                       !.failKind = "throw",
                                       !.joinDismiss = "throw"]
          ELSE /\ pc' = "join_find"
               /\ hist' = [hist EXCEPT
                             !.joinDismiss = IF ok THEN "ok" ELSE "throw"]
               /\ UNCHANGED path
    /\ UNCHANGED <<iter, bot_active, recording_active, audio_data_url, call,
                   spPc, monPc, last_url, seen, obs>>
    /\ UNCHANGED pageVars

\* info = await self.page.evaluate(JS_FIND_JOIN); not found: sleep(1)
click_join_find ==
    /\ pc = "join_find"
    /\ \E ok \in BOOLEAN, found \in BOOLEAN :
          IF ~ok
          THEN Raise("join", "throw") /\ UNCHANGED iter
          ELSE /\ IF found
                  THEN pc' = "join_click" /\ UNCHANGED <<iter, hist>>
                  ELSE /\ pc' = "join_dismiss"
                       /\ iter' = iter + 1
                       /\ hist' = [hist EXCEPT !.joinDismiss = "none"]
               /\ UNCHANGED path
    /\ UNCHANGED <<bot_active, recording_active, audio_data_url, call, spPc,
                   monPc, last_url, seen, obs>>
    /\ UNCHANGED pageVars

\* await self.page.mouse.click(info["x"], info["y"]); return; sleep(10)
click_join_click ==
    /\ pc = "join_click"
    /\ \E ok \in BOOLEAN :
          IF ~ok
          THEN /\ pc' = HandlerEntry
               /\ path' = "handler"
               /\ hist' = [hist EXCEPT !.failPhase = "join", !.failKind = "throw",
                                       !.joinClicks = @ + 1]
          ELSE /\ pc' = "mic2"
               /\ hist' = [hist EXCEPT !.joinClicks = @ + 1]
               /\ UNCHANGED path
    /\ iter' = 0
    /\ UNCHANGED <<bot_active, recording_active, audio_data_url, call, spPc,
                   monPc, last_url, seen, obs>>
    /\ UNCHANGED pageVars

click_join_timeout ==
    /\ pc = "join_dismiss"
    /\ iter >= JoinAttempts
    /\ IF JoinLoopExit = "raise"
       THEN Raise("join", "timeout")
       ELSE pc' = "mic2" /\ UNCHANGED <<path, hist>>
    /\ UNCHANGED <<iter, bot_active, recording_active, audio_data_url, call,
                   spPc, monPc, last_url, seen, obs>>
    /\ UNCHANGED pageVars

\* ---- _start_recording, then self.bot_active = True and the gather ---------
\* _start_recording has returned: self.bot_active = True, and asyncio.gather
\* creates the speech task and the monitor task
EnterActive ==
    /\ pc' = "active"
    /\ bot_active' = TRUE
    /\ spPc' = "start"
    /\ monPc' = "start"
    /\ iter' = 0

\* await self.page.evaluate("... startRecording()"): the value, or a throw
StartOutcome(ok, started) ==
    IF ~ok THEN "throw" ELSE IF started THEN "true" ELSE "false"

\* faulty variant: the loop does not look at the value
AttemptEnds_never(outcome) == FALSE

\* if started: self.recording_active = True; return
AttemptEnds(outcome) == outcome = "true"

\* one of the 30 attempts: a call that throws counts as one returning false
start_recording ==
    /\ pc = "start_rec"
    /\ iter < RecordingAttempts
    /\ \E ok \in BOOLEAN, started \in BOOLEAN :
          IF AttemptEnds(StartOutcome(ok, started))
          THEN /\ recording_active' = TRUE
               /\ EnterActive
               /\ hist' = [hist EXCEPT !.recTried = TRUE, !.everActive = TRUE,
                                       !.recLast = StartOutcome(ok, started)]
          ELSE /\ iter' = iter + 1
               /\ hist' = [hist EXCEPT !.recTried = TRUE,
                                       !.recLast = StartOutcome(ok, started)]
               /\ UNCHANGED <<pc, bot_active, recording_active, spPc, monPc>>
    /\ UNCHANGED <<path, audio_data_url, call, last_url, seen, obs>>
    /\ UNCHANGED pageVars

\* the force-start after the loop: self.recording_active = started, unless
\* the call throws
start_recording_force ==
    /\ pc = "start_rec"
    /\ iter >= RecordingAttempts
    /\ \E ok \in BOOLEAN, started \in BOOLEAN :
          /\ recording_active' = IF ok THEN started ELSE recording_active
          /\ hist' = [hist EXCEPT !.recTried = TRUE, !.recForced = TRUE,
                                  !.everActive = TRUE,
                                  !.recLast = StartOutcome(ok, started)]
    /\ EnterActive
    /\ UNCHANGED <<path, audio_data_url, call, last_url, seen, obs>>
    /\ UNCHANGED pageVars

\* ---- _schedule_bot_speech ---------------------------------------------------
\* faulty variant: the exception leaves the task
SpeechOnException_propagates == "raised"

\* except Exception as e: log_error(...): the task ends normally
SpeechOnException == "done"

\* faulty variant: the flag is not looked at after the delay
SpeechAfterDelay_ignoresFlag(active) == "resume"

\* if not self.bot_active: return, after the sleep(10)
SpeechAfterDelay(active) == IF active THEN "resume" ELSE "done"

\* faulty variant: the task ends after the clip without disabling the microphone
SpeechAfterPlay_noDisable(result) == "done"

\* after playSong has resolved (true or false): sleep(1), then disable
SpeechAfterPlay(result) == "disable"

\* faulty variant: the value _enable_toggle returned is not looked at
SpeechAfterEnable_ignoresResult(returned, mic_enabled) ==
    IF returned THEN "inject" ELSE "raise"

\* mic_enabled = await self._enable_toggle("microphone");
\* if not mic_enabled: raise Exception("Failed to enable microphone")
SpeechAfterEnable(returned, mic_enabled) ==
    IF returned /\ mic_enabled THEN "inject" ELSE "raise"

SpeechFrame == <<pc, path, iter, bot_active, recording_active, audio_data_url,
                 monPc, last_url, seen>>

\* if not self._audio_data_url: return; else sleep(10)
schedule_bot_speech ==
    /\ spPc = "start"
    /\ spPc' = IF audio_data_url THEN "sleep" ELSE "done"
    /\ hist' = [hist EXCEPT !.spSkipped = ~audio_data_url]
    /\ UNCHANGED <<call, obs>>
    /\ UNCHANGED SpeechFrame
    /\ UNCHANGED pageVars

\* the sleep(10) is over
schedule_bot_speech_wake ==
    /\ spPc = "sleep"
    /\ spPc' = SpeechAfterDelay(bot_active)
    /\ hist' = [hist EXCEPT !.spSkipped = (SpeechAfterDelay(bot_active) = "done")]
    /\ UNCHANGED <<call, obs>>
    /\ UNCHANGED SpeechFrame
    /\ UNCHANGED pageVars

\* await self.page.evaluate(... getVirtualAudioStream ...), then the call
\* of _enable_toggle("microphone") up to its first await
schedule_bot_speech_resume ==
    /\ spPc = "resume"
    /\ \E ok \in BOOLEAN :
          IF ~ok
          THEN /\ spPc' = SpeechOnException
               /\ hist' = [hist EXCEPT !.spExc = TRUE,
                                       !.spLog = Append(@, "resume")]
               /\ UNCHANGED <<call, obs>>
          ELSE /\ spPc' = "enable"
               /\ call' = BeginCall("enable", "microphone", EnableAttempts,
                                    "speech")
               /\ obs' = NoObs
               /\ hist' = [hist EXCEPT
                             !.spLog = Append(Append(@, "resume"), "enable")]
    /\ UNCHANGED SpeechFrame
    /\ UNCHANGED pageVars

\* mic_enabled = ...; if not mic_enabled: raise Exception(...); sleep(2)
schedule_bot_speech_enabled ==
    /\ spPc = "enable"
    /\ call.caller = "speech"
    /\ call.pc \in {"ret", "raise"}
    /\ IF SpeechAfterEnable(call.pc = "ret", call.result) = "inject"
       THEN /\ spPc' = "inject"
            /\ hist' = [hist EXCEPT !.spEnableAttempt =
                            IF call.pc = "ret" /\ call.result
                            THEN call.attempt ELSE 0]
       ELSE /\ spPc' = SpeechOnException
            /\ hist' = [hist EXCEPT !.spExc = TRUE]
    /\ call' = IdleCall
    /\ obs' = NoObs
    /\ UNCHANGED SpeechFrame
    /\ UNCHANGED pageVars

\* await self.page.evaluate("(dataUrl) => ...", self._audio_data_url), then
\* the call of playSong begins
schedule_bot_speech_inject ==
    /\ spPc = "inject"
    /\ \E ok \in BOOLEAN :
          IF ~ok
          THEN /\ spPc' = SpeechOnException
               /\ hist' = [hist EXCEPT !.spExc = TRUE,
                                       !.spLog = Append(@, "inject")]
          ELSE /\ spPc' = "playing"
               /\ hist' = [hist EXCEPT
                             !.spLog = Append(Append(@, "inject"), "play")]
    /\ UNCHANGED <<call, obs>>
    /\ UNCHANGED SpeechFrame
    /\ UNCHANGED pageVars

\* result = await self.page.evaluate(... playSong(url) ...); sleep(1); then
\* the call of _disable_with_retry("microphone", 5) up to its first await
schedule_bot_speech_played ==
    /\ spPc = "playing"
    /\ \E ok \in BOOLEAN, result \in BOOLEAN :
          IF ~ok
          THEN /\ spPc' = SpeechOnException
               /\ hist' = [hist EXCEPT !.spExc = TRUE, !.spPlay = "throw"]
               /\ UNCHANGED <<call, obs>>
          ELSE /\ spPc' = SpeechAfterPlay(result)
               /\ IF SpeechAfterPlay(result) = "disable"
                  THEN /\ call' = BeginCall("disable", "microphone",
                                            InMeetingToggleAttempts, "speech")
                       /\ hist' = [hist EXCEPT
                                     !.spPlay = IF result THEN "true" ELSE "false",
                                     !.spLog = Append(@, "disable")]
                  ELSE /\ call' = call
                       /\ hist' = [hist EXCEPT
                                     !.spPlay = IF result THEN "true" ELSE "false"]
               /\ obs' = NoObs
    /\ UNCHANGED SpeechFrame
    /\ UNCHANGED pageVars

\* faulty variant: the speech task ends the session when it is through
schedule_bot_speech_disabled_endsSession ==
    /\ spPc = "disable"
    /\ call.caller = "speech"
    /\ call.pc \in {"ret", "raise"}
    /\ spPc' = "done"
    /\ bot_active' = FALSE
    /\ call' = IdleCall
    /\ obs' = NoObs
    /\ UNCHANGED <<pc, path, iter, recording_active, audio_data_url, monPc,
                   last_url, seen, hist>>
    /\ UNCHANGED pageVars

\* _disable_with_retry has returned (its value is not looked at) or raised
schedule_bot_speech_disabled ==
    /\ spPc = "disable"
    /\ call.caller = "speech"
    /\ call.pc \in {"ret", "raise"}
    /\ IF call.pc = "raise"
       THEN /\ spPc' = SpeechOnException
            /\ hist' = [hist EXCEPT !.spExc = TRUE]
       ELSE spPc' = "done" /\ UNCHANGED hist
    /\ call' = IdleCall
    /\ obs' = NoObs
    /\ UNCHANGED SpeechFrame
    /\ UNCHANGED pageVars

\* ---- _monitor_meeting_end ---------------------------------------------------
\* faulty variant: the URL test misses the landing path
MeetingEnded_noLanding(alive, text, last, cur) ==
    \/ ~alive
    \/ text
    \/ (last # cur /\ ~StartsWithMeet(cur))

\* one pass of the try block: the page query throws (except Exception), the
\* end-of-meeting text is there, or the URL has changed to one that does not
\* start with https://meet.google.com/ or that contains /landing
MeetingEnded(alive, text, last, cur) ==
    \/ ~alive
    \/ text
    \/ (last # cur /\ (~StartsWithMeet(cur) \/ HasLanding(cur)))

\* while self.bot_active:
MonitorLoop(active) == IF active THEN "poll" ELSE "done"

MonitorFrame == <<pc, path, iter, recording_active, audio_data_url, call, spPc,
                  obs>>

\* last_url = self.page.url, and the first test of the while condition
monitor_meeting_end ==
    /\ monPc = "start"
    /\ \E u \in Urls : last_url' = u
    /\ monPc' = MonitorLoop(bot_active)
    /\ UNCHANGED <<bot_active, seen, hist>>
    /\ UNCHANGED MonitorFrame
    /\ UNCHANGED pageVars

\* await self.page.evaluate(JS_IS_MEETING_OVER) and the URL test after it;
\* when the meeting goes on: the status query (its failure is swallowed)
\* and the sleep(3) begins
monitor_meeting_end_poll ==
    /\ monPc = "poll"
    /\ \E p \in Polls :
          /\ seen' = p
          /\ IF MeetingEnded(p.alive, p.text, last_url, p.url)
             THEN /\ bot_active' = FALSE
                  /\ monPc' = "done"
                  /\ hist' = [hist EXCEPT
                                !.endWhilePlaying = @ \/ spPc = "playing"]
                  /\ UNCHANGED last_url
             ELSE /\ last_url' = p.url
                  /\ monPc' = "sleep"
                  /\ UNCHANGED <<bot_active, hist>>
    /\ UNCHANGED MonitorFrame
    /\ UNCHANGED pageVars

\* the sleep(3) is over: the while condition
monitor_meeting_end_sleep ==
    /\ monPc = "sleep"
    /\ monPc' = MonitorLoop(bot_active)
    /\ UNCHANGED <<bot_active, last_url, seen, hist>>
    /\ UNCHANGED MonitorFrame
    /\ UNCHANGED pageVars

\* ---- await asyncio.gather(speech, monitor) ------------------------------------
\* faulty variant: the wait returns as soon as the monitor is done
GatherOutcome_monitorOnly(sp, mon) ==
    IF sp = "raised" \/ mon = "raised" THEN "raise"
    ELSE IF mon = "done" THEN "return"
    ELSE "wait"

\* faulty variant: the wait returns as soon as the speech task is done
GatherOutcome_speechOnly(sp, mon) ==
    IF sp = "raised" \/ mon = "raised" THEN "raise"
    ELSE IF sp = "done" THEN "return"
    ELSE "wait"

\* gather raises as soon as one task has raised and returns when both are done
GatherOutcome(sp, mon) ==
    IF sp = "raised" \/ mon = "raised" THEN "raise"
    ELSE IF sp = "done" /\ mon = "done" THEN "return"
    ELSE "wait"

gather ==
    /\ pc = "active"
    /\ GatherOutcome(spPc, monPc) # "wait"
    /\ IF GatherOutcome(spPc, monPc) = "raise"
       THEN Raise("active", "throw")
       ELSE /\ pc' = "finalize"
            /\ path' = "success"
            /\ UNCHANGED hist
    /\ UNCHANGED <<iter, bot_active, recording_active, audio_data_url, call,
                   spPc, monPc, last_url, seen, obs>>
    /\ UNCHANGED pageVars

\* ---- _stop_and_save_recording ---------------------------------------------------
\* faulty variant: the stop is attempted whatever the flag says
FinalizeSkips_never(active) == FALSE

\* if not self.recording_active: return
FinalizeSkips(active) == ~active

\* the guard of _stop_and_save_recording; past it the stopRecording call begins
stop_and_save_recording ==
    /\ pc = "finalize"
    /\ IF ~FinalizeSkips(recording_active)
       THEN /\ pc' = "stopping"
            /\ hist' = [hist EXCEPT !.finalizeCalls = @ + 1, !.stopCalls = @ + 1]
       ELSE /\ pc' = "cleanup"
            /\ hist' = [hist EXCEPT !.finalizeCalls = @ + 1]
    /\ UNCHANGED <<path, iter, bot_active, recording_active, audio_data_url,
                   call, spPc, monPc, last_url, seen, obs>>
    /\ UNCHANGED pageVars

\* how the try block of _stop_and_save_recording ends: the evaluate throws,
\* resolves to null, or resolves to a data URL that is written to the file
\* or whose decoding or writing throws
StopOutcome(ok, data, written) ==
    IF ~ok THEN "throw"
    ELSE IF ~data THEN "null"
    ELSE IF written THEN "saved" ELSE "write_failed"

\* faulty variant: the flag is cleared inside the try block, after the save
FlagAfterStop_insideTry(outcome) == outcome \in {"throw", "write_failed"}

\* self.recording_active = False, after the try/except
FlagAfterStop(outcome) == FALSE

\* stopRecording has resolved or thrown; the file is written when there is
\* data; every exception is caught; self.recording_active = False
stop_and_save_recording_stopped ==
    /\ pc = "stopping"
    /\ \E ok \in BOOLEAN, data \in BOOLEAN, written \in BOOLEAN :
          LET outcome == StopOutcome(ok, data, written) IN
          /\ hist' = [hist EXCEPT
                        !.artifacts = @ + (IF outcome = "saved" THEN 1 ELSE 0),
                        !.stopOutcome = outcome]
          /\ recording_active' = FlagAfterStop(outcome)
    /\ pc' = "cleanup"
    /\ UNCHANGED <<path, iter, bot_active, audio_data_url, call, spPc, monPc,
                   last_url, seen, obs>>
    /\ UNCHANGED pageVars

\* ---- finally: await self._cleanup() ------------------------------------------
\* the objects _cleanup closes, in its order
CloseOrder == <<"context", "browser", "playwright">>

\* if self.context: / if self.browser: / if self.playwright: -- the context
\* and the playwright object are set by _launch_browser, self.browser by
\* nothing (the context is a persistent one)
IsSet(obj, launched) ==
    CASE obj = "context" -> launched \in {"context", "page"}
      [] obj = "playwright" -> launched # "none"
      [] OTHER -> FALSE

\* faulty variant: one try around the three close steps
CloseAttempted_oneTry(obj, launched, failedBefore) ==
    IsSet(obj, launched) /\ ~failedBefore

\* each close step is in a try of its own, whose except passes
CloseAttempted(obj, launched, failedBefore) == IsSet(obj, launched)

\* the close steps made, in order, when the calls in throws throw (the
\* history keeps the steps that threw and had a step after them)
RECURSIVE CloseFrom(_, _, _, _)
CloseFrom(i, launched, throws, failedBefore) ==
    IF i > Len(CloseOrder) THEN {}
    ELSE LET obj == CloseOrder[i]
             made == CloseAttempted(obj, launched, failedBefore)
         IN (IF made THEN {obj} ELSE {})
            \cup CloseFrom(i + 1, launched, throws,
                           failedBefore \/ (made /\ obj \in throws))

cleanup ==
    /\ pc = "cleanup"
    /\ pc' = "done"
    /\ \E throws \in SUBSET {"context", "playwright"} :
          LET made == CloseFrom(1, hist.launched, throws, FALSE) IN
          hist' = [hist EXCEPT !.cleanupCalls = @ + 1,
                               !.closed = made,
                               !.closeFailed =
                                   (made \cap throws) \ {"playwright"}]
    /\ UNCHANGED <<path, iter, bot_active, recording_active, audio_data_url,
                   call, spPc, monPc, last_url, seen, obs>>
    /\ UNCHANGED pageVars

\* ---- the run ------------------------------------------------------------------
Main ==
    \/ is_valid_meet_url \/ launch_browser \/ setup_page \/ navigate_to_meet
    \/ wait_for_prejoin_ui \/ wait_for_prejoin_ui_timeout
    \/ fill_name_if_needed
    \/ start_disable \/ start_disable_return
    \/ click_join_dismiss \/ click_join_find \/ click_join_click
    \/ click_join_timeout
    \/ start_recording \/ start_recording_force
    \/ gather
    \/ stop_and_save_recording \/ stop_and_save_recording_stopped
    \/ cleanup

Toggle ==
    \/ disable_with_retry_query \/ disable_with_retry_click
    \/ enable_toggle_query \/ enable_toggle_click \/ enable_toggle_verify

Speech ==
    \/ schedule_bot_speech \/ schedule_bot_speech_wake
    \/ schedule_bot_speech_resume \/ schedule_bot_speech_enabled
    \/ schedule_bot_speech_inject \/ schedule_bot_speech_played
    \/ schedule_bot_speech_disabled

Monitor ==
    \/ monitor_meeting_end \/ monitor_meeting_end_poll
    \/ monitor_meeting_end_sleep

Next == Main \/ Toggle \/ Speech \/ Monitor

Spec == Init /\ [][Next]_vars

\* the event loop runs every task that can run: a sleep ends, a browser call
\* returns or throws
FairSpec ==
    /\ Spec
    /\ WF_vars(Main)
    /\ WF_vars(Toggle \/ Speech)
    /\ WF_vars(Monitor)

\* ---- INIT_SCRIPT, section 1: the virtual audio system ---------------------------
\* faulty variant: an oscillator is made whenever the graph is running
OscillatorStarts_again(osc, ctx, dest) == ctx = "running" /\ dest # 0

\* startSilentOscillator(): nothing when the oscillator exists, or without a
\* context or a destination, or when the context is not running
OscillatorStarts(osc, ctx, dest) ==
    ~osc /\ ctx # "null" /\ dest # 0 /\ ctx = "running"

\* the history after a call of startSilentOscillator()
AfterOscillator(h, osc, ctx, dest) ==
    IF OscillatorStarts(osc, ctx, dest)
    THEN [h EXCEPT !.made.osc = @ + 1, !.oscState = ctx]
    ELSE h

\* if (virtualStream && virtualStream.active) return virtualStream
StreamReused(stream) == stream.dest # 0 /\ stream.active

\* audioDestination.stream: the one stream of that destination
StreamOf(dest, stream) ==
    IF stream.dest = dest THEN stream ELSE [dest |-> dest, active |-> TRUE]

\* getVirtualAudioStream(): the values it leaves, the stream it returns and
\* whether it throws (new AudioContext fails); state is the state a new
\* context starts in
GetVirtualAudioStream(ctxOk, state) ==
    LET same == [threw |-> FALSE, stream |-> virtualStream,
                 audioContext |-> audioContext,
                 audioDestination |-> audioDestination, gainNode |-> gainNode,
                 silentOscillator |-> silentOscillator, mh |-> mh]
        ctx == IF audioContext = "null" THEN state ELSE audioContext
        dest == IF audioDestination = 0 THEN mh.made.dest + 1
                ELSE audioDestination
        made == [mh EXCEPT
                   !.made.ctx = @ + (IF audioContext = "null" THEN 1 ELSE 0),
                   !.made.dest = @ + (IF audioDestination = 0 THEN 1 ELSE 0),
                   !.made.gain = @ + (IF gainNode THEN 0 ELSE 1)]
        starts == ctx = "running" /\ OscillatorStarts(silentOscillator, ctx, dest)
    IN  IF StreamReused(virtualStream) THEN same
        ELSE IF audioContext = "null" /\ ~ctxOk
        THEN [same EXCEPT !.threw = TRUE, !.stream = NoStream]
        ELSE [threw |-> FALSE,
              stream |-> StreamOf(dest, virtualStream),
              audioContext |-> ctx,
              audioDestination |-> dest,
              gainNode |-> TRUE,
              silentOscillator |-> silentOscillator \/ starts,
              mh |-> IF ctx = "running"
                     THEN AfterOscillator(made, silentOscillator, ctx, dest)
                     ELSE made]

\* the variables of the graph after getVirtualAudioStream() gave g
Acquired(g) ==
    /\ audioContext' = g.audioContext
    /\ audioDestination' = g.audioDestination
    /\ gainNode' = g.gainNode
    /\ silentOscillator' = g.silentOscillator
    /\ virtualStream' = IF g.threw THEN virtualStream ELSE g.stream

\* window.__personaMeetBot.getVirtualAudioStream(), called from outside
getVirtualAudioStream ==
    /\ \E ctxOk \in BOOLEAN, state \in {"suspended", "running"} :
          LET g == GetVirtualAudioStream(ctxOk, state)
          IN /\ Acquired(g)
             /\ mh' = [g.mh EXCEPT !.acquired = g.stream]
    /\ UNCHANGED <<songSource, songBuffer, isSpeaking, resuming, song>>
    /\ UNCHANGED <<orchVars, recVars, locVars>>

\* faulty variant: the whole constraint set goes to the real getUserMedia
VideoRequest_whole(constraints) == constraints

\* originalGetUserMedia({ video: constraints.video })
VideoRequest(constraints) == [audio |-> FALSE, video |-> constraints.video]

\* the real getUserMedia: tracks of the kinds asked for, or a rejection
OriginalGetUserMedia(request, ok) ==
    IF ~ok \/ (~request.audio /\ ~request.video) THEN Rejected
    ELSE [ok |-> TRUE,
          tracks |-> {RealTrack(k) : k \in
                        (IF request.audio THEN {"audio"} ELSE {})
                        \cup (IF request.video THEN {"video"} ELSE {})}]

\* the tracks of the virtual stream: the one track of the destination
AudioTracksOf(stream) == IF stream.dest = 0 THEN {} ELSE {VirtualTrack}

\* the stream the override resolves to for a request with audio: the virtual
\* audio tracks, with the video tracks of the real stream when video was
\* asked for and the real call succeeded
OverrideResult(vStream, constraints, vid) ==
    IF constraints.video /\ vid.ok
    THEN [ok |-> TRUE,
          tracks |-> AudioTracksOf(vStream)
                     \cup {t \in vid.tracks : t.kind = "video"}]
    ELSE [ok |-> TRUE, tracks |-> AudioTracksOf(vStream)]

\* navigator.mediaDevices.getUserMedia(constraints), the override. The graph
\* is read and written in getVirtualAudioStream only, before the first await
getUserMedia ==
    /\ \E constraints \in Constraints, ctxOk \in BOOLEAN,
          state \in {"suspended", "running"}, realOk \in BOOLEAN :
          IF constraints.audio
          THEN LET g == GetVirtualAudioStream(ctxOk, state)
                   request == VideoRequest(constraints)
                   vid == OriginalGetUserMedia(request, realOk)
               IN /\ Acquired(g)
                  /\ mh' = [g.mh EXCEPT
                        !.acquired = g.stream,
                        !.constraints = constraints,
                        !.result = IF g.threw THEN Rejected
                                   ELSE OverrideResult(g.stream, constraints, vid),
                        !.askedRealAudio =
                            @ \/ (~g.threw /\ constraints.video /\ request.audio)]
          ELSE /\ mh' = [mh EXCEPT
                        !.constraints = constraints,
                        !.result = OriginalGetUserMedia(constraints, realOk)]
               /\ UNCHANGED <<audioContext, audioDestination, gainNode,
                              silentOscillator, virtualStream>>
    /\ UNCHANGED <<songSource, songBuffer, isSpeaking, resuming, song>>
    /\ UNCHANGED <<orchVars, recVars, locVars>>

\* a consumer of the stream stops its track: the stream is no longer active
track_stopped ==
    /\ virtualStream.dest # 0
    /\ virtualStream.active
    /\ virtualStream' = [virtualStream EXCEPT !.active = FALSE]
    /\ mh' = [mh EXCEPT !.stopped = TRUE]
    /\ UNCHANGED <<audioContext, audioDestination, gainNode, silentOscillator,
                   songSource, songBuffer, isSpeaking, resuming, song>>
    /\ UNCHANGED <<orchVars, recVars, locVars>>

\* resumeOnGesture, on click, keydown or mousedown: a suspended context is
\* resumed first, the handler waiting for it; else the oscillator is started
resumeOnGesture ==
    /\ audioContext # "null"
    /\ IF audioContext = "suspended"
       THEN /\ resuming < MaxGestures
            /\ resuming' = resuming + 1
            /\ UNCHANGED <<silentOscillator, mh>>
       ELSE /\ silentOscillator' =
                  (silentOscillator
                   \/ OscillatorStarts(silentOscillator, audioContext,
                                       audioDestination))
            /\ mh' = AfterOscillator(mh, silentOscillator, audioContext,
                                     audioDestination)
            /\ UNCHANGED resuming
    /\ UNCHANGED <<audioContext, audioDestination, virtualStream, gainNode,
                   songSource, songBuffer, isSpeaking, song>>
    /\ UNCHANGED <<orchVars, recVars, locVars>>

\* audioContext.resume() of a gesture handler has resolved or failed (the
\* failure is swallowed); then startSilentOscillator()
resumeOnGesture_resumed ==
    /\ resuming > 0
    /\ resuming' = resuming - 1
    /\ \E ok \in BOOLEAN :
          LET ctx == IF ok THEN "running" ELSE audioContext
          IN /\ audioContext' = ctx
             /\ silentOscillator' =
                   (silentOscillator
                    \/ OscillatorStarts(silentOscillator, ctx, audioDestination))
             /\ mh' = AfterOscillator(mh, silentOscillator, ctx,
                                      audioDestination)
    /\ UNCHANGED <<audioDestination, virtualStream, gainNode, songSource,
                   songBuffer, isSpeaking, song>>
    /\ UNCHANGED <<orchVars, recVars, locVars>>

\* faulty variant: a list with any device gets no virtual microphone
HasAudioInput_anyDevice(devices) == Len(devices) > 0

\* devices.some(d => d.kind === 'audioinput')
HasAudioInput(devices) ==
    \E i \in 1..Len(devices) : devices[i].kind = "audioinput"

\* the list the override returns for the list of the real enumerateDevices
EnumerateDevices(devices) ==
    IF ~HasAudioInput(devices) THEN Append(devices, VirtualDevice) ELSE devices

\* navigator.mediaDevices.enumerateDevices(), the override: the real list, or
\* the empty list when the real call fails
enumerateDevices ==
    /\ \E ok \in BOOLEAN, real \in RealLists :
          LET devices == IF ok THEN real ELSE <<>>
          IN mh' = [mh EXCEPT !.real = devices,
                              !.devices = EnumerateDevices(devices)]
    /\ UNCHANGED <<audioContext, audioDestination, virtualStream, gainNode,
                   silentOscillator, songSource, songBuffer, isSpeaking,
                   resuming, song>>
    /\ UNCHANGED <<orchVars, recVars, locVars>>

\* the virtual microphone under every order of calls and events
MicNext ==
    \/ getVirtualAudioStream \/ getUserMedia \/ track_stopped
    \/ resumeOnGesture \/ resumeOnGesture_resumed
    \/ enumerateDevices

MicSpec == Init /\ [][MicNext]_vars

\* ---- playSong ---------------------------------------------------------------------
\* if (isSpeaking) return false
SongRejected(speaking) == speaking

\* a call in progress: it has begun and has not returned
InProgress(c) == song[c].pc \notin {"idle", "done"}

\* return r from call c
SongReturn(c, r) ==
    song' = [song EXCEPT ![c].pc = "done", ![c].result = r]

\* catch (err): isSpeaking = false; return false
SongCatch(c) ==
    /\ isSpeaking' = FALSE
    /\ SongReturn(c, FALSE)
    /\ UNCHANGED songSource

\* lines 367-382 in a context ctx: the source is made and connected,
\* isSpeaking = true, the source is started; without a context or a gain node
\* the TypeError goes to the catch
SongStart(c, ctx) ==
    IF ctx = "null" \/ ~gainNode
    THEN SongCatch(c)
    ELSE /\ songSource' = c
         /\ isSpeaking' = TRUE
         /\ song' = [song EXCEPT ![c].pc = "playing"]

\* if (!songBuffer): the fetch begins; else the clip is started
SongLoadOrStart(c, ctx) ==
    IF ~songBuffer
    THEN /\ song' = [song EXCEPT ![c].pc = "fetch"]
         /\ UNCHANGED <<isSpeaking, songSource>>
    ELSE SongStart(c, ctx)

SongFrame == <<audioDestination, virtualStream, gainNode, silentOscillator,
               resuming>>

\* playSong(songUrl) is called, and runs to its first await or to its return
playSong ==
    /\ \E c \in Callers :
          /\ song[c].pc = "idle"
          /\ LET began == [song EXCEPT
                             ![c].overlapped = \E d \in Callers : InProgress(d),
                             ![c].sawBuffer = songBuffer]
             IN IF SongRejected(isSpeaking)
                THEN /\ song' = [began EXCEPT ![c].pc = "done",
                                              ![c].result = FALSE]
                     /\ UNCHANGED <<isSpeaking, songSource>>
                ELSE IF audioContext = "suspended"
                THEN /\ song' = [began EXCEPT ![c].pc = "resume"]
                     /\ UNCHANGED <<isSpeaking, songSource>>
                ELSE IF ~songBuffer
                THEN /\ song' = [began EXCEPT ![c].pc = "fetch"]
                     /\ UNCHANGED <<isSpeaking, songSource>>
                ELSE IF audioContext = "null" \/ ~gainNode
                THEN /\ isSpeaking' = FALSE
                     /\ song' = [began EXCEPT ![c].pc = "done",
                                              ![c].result = FALSE]
                     /\ UNCHANGED songSource
                ELSE /\ songSource' = c
                     /\ isSpeaking' = TRUE
                     /\ song' = [began EXCEPT ![c].pc = "playing"]
    /\ UNCHANGED <<audioContext, songBuffer, mh>>
    /\ UNCHANGED SongFrame
    /\ UNCHANGED <<orchVars, recVars, locVars>>

\* await audioContext.resume() has resolved or thrown
playSong_resumed ==
    /\ \E c \in Callers, ok \in BOOLEAN :
          /\ song[c].pc = "resume"
          /\ IF ok
             THEN /\ audioContext' = "running"
                  /\ SongLoadOrStart(c, "running")
             ELSE /\ SongCatch(c)
                  /\ UNCHANGED audioContext
    /\ UNCHANGED <<songBuffer, mh>>
    /\ UNCHANGED SongFrame
    /\ UNCHANGED <<orchVars, recVars, locVars>>

\* await fetch(songUrl) and await resp.arrayBuffer() are over: a failed fetch,
\* a response that is not ok, and decodeAudioData of a missing context throw;
\* else the decoding begins
playSong_fetched ==
    /\ \E c \in Callers, ok \in BOOLEAN :
          /\ song[c].pc = "fetch"
          /\ mh' = [mh EXCEPT !.fetches = @ + 1]
          /\ IF ok /\ audioContext # "null"
             THEN /\ song' = [song EXCEPT ![c].pc = "decode"]
                  /\ UNCHANGED <<isSpeaking, songSource>>
             ELSE SongCatch(c)
    /\ UNCHANGED <<audioContext, songBuffer>>
    /\ UNCHANGED SongFrame
    /\ UNCHANGED <<orchVars, recVars, locVars>>

\* await audioContext.decodeAudioData(ab) has resolved or thrown:
\* songBuffer = the decoded clip, then the clip is started
playSong_decoded ==
    /\ \E c \in Callers, ok \in BOOLEAN :
          /\ song[c].pc = "decode"
          /\ IF ok
             THEN /\ songBuffer' = TRUE
                  /\ mh' = [mh EXCEPT !.decodes = @ + 1]
                  /\ SongStart(c, audioContext)
             ELSE /\ SongCatch(c)
                  /\ UNCHANGED <<songBuffer, mh>>
    /\ UNCHANGED audioContext
    /\ UNCHANGED SongFrame
    /\ UNCHANGED <<orchVars, recVars, locVars>>

\* songSource.onended of the source of call c: the clip has finished
songSource_onended ==
    /\ \E c \in Callers :
          /\ song[c].pc = "playing"
          /\ isSpeaking' = FALSE
          /\ songSource' = 0
          /\ SongReturn(c, TRUE)
    /\ UNCHANGED <<audioContext, songBuffer, mh>>
    /\ UNCHANGED SongFrame
    /\ UNCHANGED <<orchVars, recVars, locVars>>

\* playSong under every interleaving of its calls, on a graph that
\* getVirtualAudioStream may have made
SongNext ==
    \/ getVirtualAudioStream
    \/ playSong \/ playSong_resumed \/ playSong_fetched \/ playSong_decoded
    \/ songSource_onended

SongSpec == Init /\ [][SongNext]_vars

\* ---- INIT_SCRIPT, section 2: the recording system ------------------------------
RECURSIVE Sum(_)
Sum(s) == IF s = <<>> THEN 0 ELSE Head(s) + Sum(Tail(s))

\* mediaRecorder.state: a recorder whose stop has begun is already inactive
RecorderState(r) == IF r = "recording" THEN "recording" ELSE "inactive"

\* faulty variant: every chunk is kept, also an empty one
OnDataAvailable_keepsEmpty(chunks, total, size) ==
    [chunks |-> Append(chunks, size), total |-> total + size]

\* mediaRecorder.ondataavailable: a chunk with data is pushed and counted
OnDataAvailable(chunks, total, size) ==
    IF size > 0
    THEN [chunks |-> Append(chunks, size), total |-> total + size]
    ELSE [chunks |-> chunks, total |-> total]

\* faulty variant: startRecording does not look at isRecording
StartIsNoop_never(recording) == FALSE

\* if (isRecording) return true
StartIsNoop(recording) == recording

\* faulty variant: the new recorder goes on with the buffer that is there
ResetBuffer_keeps(chunks, total) == [chunks |-> chunks, total |-> total]

\* recordedChunks = []; totalRecBytes = 0
ResetBuffer(chunks, total) == [chunks |-> <<>>, total |-> 0]

\* faulty variant: no recording is started before a remote track is connected
NoAudioTracks_needsRemote(n, ids) == n = 0 \/ ids = {}

\* if (stream.getAudioTracks().length === 0) return false
NoAudioTracks(n, ids) == n = 0

\* startRecording(): ensureRecordingContext() is outside the try, so a
\* failing new AudioContext leaves the call by an exception; inside the try a
\* stream without audio tracks or an exception gives false
startRecording ==
    /\ \E ctxOk \in BOOLEAN, n \in DestTracks, recOk \in BOOLEAN,
          startOk \in BOOLEAN :
          IF StartIsNoop(isRecording)
          THEN /\ rh' = [rh EXCEPT !.start = "true", !.created = FALSE,
                                   !.why = "recording", !.destTracks = 0,
                                   !.connected = connectedTrackIds]
               /\ UNCHANGED <<recCtx, mediaRecorder, onstop, recordedChunks,
                              totalRecBytes, isRecording>>
          ELSE IF ~recCtx /\ ~ctxOk
          THEN /\ rh' = [rh EXCEPT !.start = "throw", !.created = FALSE,
                                   !.why = "context", !.destTracks = 0,
                                   !.connected = connectedTrackIds]
               /\ UNCHANGED <<recCtx, mediaRecorder, onstop, recordedChunks,
                              totalRecBytes, isRecording>>
          ELSE IF NoAudioTracks(n, connectedTrackIds) \/ ~recOk
          THEN /\ recCtx' = TRUE
               /\ rh' = [rh EXCEPT
                     !.start = "false", !.created = FALSE,
                     !.why = IF NoAudioTracks(n, connectedTrackIds)
                             THEN "no_audio" ELSE "recorder",
                     !.destTracks = n,
                     !.connected = connectedTrackIds]
               /\ UNCHANGED <<mediaRecorder, onstop, recordedChunks,
                              totalRecBytes, isRecording>>
          ELSE /\ rh.made < MaxRecorders
               /\ recCtx' = TRUE
               /\ mediaRecorder' = IF startOk THEN "recording" ELSE "inactive"
               /\ onstop' = FALSE
               /\ recordedChunks' = ResetBuffer(recordedChunks, totalRecBytes).chunks
               /\ totalRecBytes' = ResetBuffer(recordedChunks, totalRecBytes).total
               /\ isRecording' = startOk
               /\ rh' = [NoRecHist EXCEPT
                     !.start = IF startOk THEN "true" ELSE "false",
                     !.created = TRUE,
                     !.why = IF startOk THEN "started" ELSE "start",
                     !.destTracks = n,
                     !.connected = connectedTrackIds,
                     !.discarded = Len(recordedChunks),
                     !.made = rh.made + 1,
                     !.orphan = rh.orphan \/ mediaRecorder = "recording"]
    /\ UNCHANGED <<connectedTrackIds, tracks>>
    /\ UNCHANGED <<orchVars, micVars, locVars>>

\* a dataavailable event of the running recorder (one every 3 s)
ondataavailable ==
    /\ mediaRecorder = "recording"
    /\ Len(rh.arrivals) < MaxChunks
    /\ \E size \in ChunkSizes :
          LET b == OnDataAvailable(recordedChunks, totalRecBytes, size)
          IN /\ recordedChunks' = b.chunks
             /\ totalRecBytes' = b.total
             /\ rh' = [rh EXCEPT !.arrivals = Append(@, size),
                                 !.start = "none", !.created = FALSE,
                                 !.why = "none", !.destTracks = 0,
                                 !.discarded = 0]
    /\ UNCHANGED <<recCtx, mediaRecorder, onstop, isRecording,
                   connectedTrackIds, tracks>>
    /\ UNCHANGED <<orchVars, micVars, locVars>>

\* mediaRecorder.onerror: the recorder reports an error and stops by itself
onerror ==
    /\ mediaRecorder = "recording"
    /\ mediaRecorder' = "stopping"
    /\ rh' = [rh EXCEPT !.start = "none", !.created = FALSE,
                        !.why = "none", !.destTracks = 0,
                        !.discarded = 0]
    /\ UNCHANGED <<recCtx, onstop, recordedChunks, totalRecBytes, isRecording,
                   connectedTrackIds, tracks>>
    /\ UNCHANGED <<orchVars, micVars, locVars>>

\* faulty variant: stopRecording does not look at isRecording
StopIsNoop_ignoresFlag(rec, recording) == rec = "null"

\* if (!mediaRecorder || !isRecording) return Promise.resolve(null)
StopIsNoop(rec, recording) == rec = "null" \/ ~recording

\* faulty variant: the handler does not look for an empty buffer
StopValue_noEmptyCheck(chunks, total, blobOk, readOk) ==
    IF ~blobOk \/ ~readOk THEN Null ELSE [null |-> FALSE, data |-> chunks]

\* the value the onstop handler resolves the promise with: null for an empty
\* buffer, for a failing or empty Blob and for a failing FileReader
StopValue(chunks, total, blobOk, readOk) ==
    IF Len(chunks) = 0 \/ total = 0 THEN Null
    ELSE IF ~blobOk \/ Sum(chunks) = 0 \/ ~readOk THEN Null
    ELSE [null |-> FALSE, data |-> chunks]

\* stopRecording(), up to the return of the promise; one call at a time, as
\* the caller awaits the result
stopRecording ==
    /\ rh.stop # "pending"
    /\ \E stopOk \in BOOLEAN :
          LET called == [rh EXCEPT !.start = "none", !.created = FALSE,
                                   !.why = "none", !.destTracks = 0,
                                   !.discarded = 0,
                                   !.callRec = mediaRecorder,
                                   !.callFlag = isRecording,
                                   !.failed = FALSE]
          IN IF StopIsNoop(mediaRecorder, isRecording)
             THEN /\ rh' = [called EXCEPT !.stop = "resolved", !.value = Null]
                  /\ UNCHANGED <<mediaRecorder, onstop>>
             ELSE /\ onstop' = TRUE
                  /\ IF RecorderState(mediaRecorder) = "inactive"
                     THEN /\ rh' = [called EXCEPT !.stop = "resolved",
                                                  !.value = Null]
                          /\ UNCHANGED mediaRecorder
                     ELSE IF stopOk
                     THEN /\ mediaRecorder' = "stopping"
                          /\ rh' = [called EXCEPT !.stop = "pending"]
                     ELSE /\ rh' = [called EXCEPT !.stop = "resolved",
                                                  !.value = Null,
                                                  !.failed = TRUE]
                          /\ UNCHANGED mediaRecorder
    /\ UNCHANGED <<recCtx, recordedChunks, totalRecBytes, isRecording,
                   connectedTrackIds, tracks>>
    /\ UNCHANGED <<orchVars, micVars, locVars>>

\* the recorder has stopped: its last dataavailable event, then its stop
\* event; the onstop handler, when set, clears isRecording and resolves the
\* promise of the call that waits
recorder_stopped ==
    /\ mediaRecorder = "stopping"
    /\ \E size \in ChunkSizes, blobOk \in BOOLEAN, readOk \in BOOLEAN :
          LET b == OnDataAvailable(recordedChunks, totalRecBytes, size)
              v == StopValue(b.chunks, b.total, blobOk, readOk)
              arrived == [rh EXCEPT !.arrivals = Append(@, size),
                                    !.start = "none", !.created = FALSE,
                                    !.why = "none", !.destTracks = 0,
                                    !.discarded = 0]
          IN /\ recordedChunks' = b.chunks
             /\ totalRecBytes' = b.total
             /\ rh' = IF onstop /\ rh.stop = "pending"
                      THEN [arrived EXCEPT
                              !.stop = "resolved", !.value = v,
                              !.failed = Len(b.chunks) > 0 /\ b.total > 0
                                         /\ (~blobOk \/ ~readOk)]
                      ELSE arrived
    /\ mediaRecorder' = "inactive"
    /\ isRecording' = IF onstop THEN FALSE ELSE isRecording
    /\ UNCHANGED <<recCtx, onstop, connectedTrackIds, tracks>>
    /\ UNCHANGED <<orchVars, micVars, locVars>>

\* ---- INIT_SCRIPT, section 3: WebRTC interception -------------------------------
\* faulty variant: a track is connected again each time it is delivered
AlreadyConnected_never(ids, t) == FALSE

\* if (connectedTrackIds.has(track.id)) return
AlreadyConnected(ids, t) == t \in ids

\* the track listener of PersonaRTCPeerConnection, with connectTrackToRecorder:
\* an audio track not yet connected gets a source into recDest, unless the
\* context or the source cannot be made (the exception is caught)
ontrack ==
    /\ \E kind \in {"audio", "video"} :
          IF kind = "video"
          THEN UNCHANGED <<recCtx, connectedTrackIds, tracks>>
          ELSE \E t \in TrackIds, ctxOk \in BOOLEAN, srcOk \in BOOLEAN :
                /\ ~tracks[t].ended
                /\ tracks[t].deliveries < MaxDeliveries
                /\ IF AlreadyConnected(connectedTrackIds, t)
                      \/ (~recCtx /\ ~ctxOk)
                   THEN /\ tracks' = [tracks EXCEPT ![t].deliveries = @ + 1]
                        /\ UNCHANGED <<recCtx, connectedTrackIds>>
                   ELSE IF ~srcOk
                   THEN /\ recCtx' = TRUE
                        /\ tracks' = [tracks EXCEPT ![t].deliveries = @ + 1]
                        /\ UNCHANGED connectedTrackIds
                   ELSE /\ recCtx' = TRUE
                        /\ connectedTrackIds' = connectedTrackIds \cup {t}
                        /\ tracks' = [tracks EXCEPT ![t].deliveries = @ + 1,
                                                    ![t].sources = @ + 1]
    /\ UNCHANGED <<mediaRecorder, onstop, recordedChunks, totalRecBytes,
                   isRecording, rh>>
    /\ UNCHANGED <<orchVars, micVars, locVars>>

\* faulty variant: the listener empties the set
Delete_all(ids, t) == {}

\* connectedTrackIds.delete(event.track.id)
Delete(ids, t) == ids \ {t}

\* the ended listener of a delivered audio track
onended ==
    /\ \E t \in TrackIds :
          /\ tracks[t].deliveries > 0
          /\ ~tracks[t].ended
          /\ tracks' = [tracks EXCEPT ![t].ended = TRUE]
          /\ connectedTrackIds' = Delete(connectedTrackIds, t)
    /\ UNCHANGED <<recCtx, mediaRecorder, onstop, recordedChunks,
                   totalRecBytes, isRecording, rh>>
    /\ UNCHANGED <<orchVars, micVars, locVars>>

\* the recorder under every order of calls and events
RecNext ==
    \/ startRecording \/ ondataavailable \/ onerror
    \/ stopRecording \/ recorder_stopped

RecSpec == Init /\ [][RecNext]_vars

\* the mixer under every order of track events
MixNext == ontrack \/ onended

MixSpec == Init /\ [][MixNext]_vars

\* a track event of one of the first MaxMixed tracks
ontrack_mixed ==
    /\ ontrack
    /\ \A t \in TrackIds : t > MaxMixed => tracks'[t] = tracks[t]

\* the recorder is started while tracks arrive and end
CapNext == startRecording \/ ontrack_mixed \/ onended

CapSpec == Init /\ [][CapNext]_vars

\* ---- INIT_SCRIPT: the connections of the two audio graphs ---------------------
\* faulty variant: the gain node of the virtual microphone feeds the recorder
GainOutput_recorded == "recDest"

\* gainNode.connect(audioDestination)
GainOutput == "audioDestination"

\* silentOscillator.connect(g); g.connect(audioDestination)
OscillatorOutput == "audioDestination"

\* songSource.connect(gainNode)
SongOutput == "gainNode"

\* src.connect(dest), with dest the recDest of ensureRecordingContext()
TrackSourceOutput == "recDest"

\* the connections of the nodes there are; each node is connected where it is
\* made and never disconnected
Connections ==
    (IF gainNode
     THEN {[from |-> [kind |-> "gainNode", id |-> 0], to |-> GainOutput]}
     ELSE {})
    \cup (IF silentOscillator
          THEN {[from |-> [kind |-> "silentOscillator", id |-> 0],
                 to |-> OscillatorOutput]}
          ELSE {})
    \cup (IF songSource # 0
          THEN {[from |-> [kind |-> "songSource", id |-> songSource],
                 to |-> SongOutput]}
          ELSE {})
    \cup {[from |-> [kind |-> "trackSource", id |-> t], to |-> TrackSourceOutput] :
             t \in {u \in TrackIds : tracks[u].sources > 0}}

\* a track event, an ended event of the first remote track
ontrack_first ==
    /\ ontrack
    /\ \A t \in TrackIds : t > 1 => tracks'[t] = tracks[t]

onended_first ==
    /\ onended
    /\ \A t \in TrackIds : t > 1 => tracks'[t] = tracks[t]

\* the virtual microphone plays while a remote track arrives and ends
GraphNext == SongNext \/ ontrack_first \/ onended_first

GraphSpec == Init /\ [][GraphNext]_vars

\* ---- JS_FIND_TOGGLE --------------------------------------------------------------
\* elements of a document
MaxElements == 2

\* an element, by the words of its aria-label, data-tooltip and title joined
\* with spaces
Labels == {<<"Turn", "off", "microphone">>,
           <<"Turn", "on", "microphone">>,
           <<"Microphone", "is", "off">>,
           <<"microphone">>,
           <<"mic", "settings">>,
           <<"Turn", "off", "mic">>,
           <<"Turn", "off", "camera">>,
           <<"Turn", "on", "video">>,
           <<"video", "is", "off">>,
           <<"camera", "options">>,
           <<"Turn", "on", "camera", "turn", "off", "microphone">>,
           <<"leave", "call">>}
Documents == UNION {[1..n -> Labels] : n \in 0..MaxElements}
Types == {"microphone", "camera"}

\* .toLowerCase() of a word
Lower(w) ==
    CASE w = "Turn" -> "turn"
      [] w = "Microphone" -> "microphone"
      [] OTHER -> w

\* const label = [...].join(' ').toLowerCase()
Label(el) == [i \in 1..Len(el) |-> Lower(el[i])]

\* word is a substring of token
HasSubstring(token, word) ==
    token = word \/ <<token, word>> \in {<<"options", "option">>}

\* label.includes(phrase), for a phrase of one or of two words
Includes(label, phrase) ==
    IF Len(phrase) = 1
    THEN \E i \in 1..Len(label) : HasSubstring(label[i], phrase[1])
    ELSE \E i \in 1..(Len(label) - 1) :
            label[i] = phrase[1] /\ label[i + 1] = phrase[2]

\* faulty variant: no label is passed over
Excluded_none(label) == FALSE

\* the labels the loop passes over (continue)
Excluded(label) ==
    \E w \in {"settings", "option", "effect", "layout", "tile"} :
        Includes(label, <<w>>)

\* isMatch; /\bmic\b/ and ' mic ' find the word mic
IsMatch(type, label) ==
    \/ /\ type = "microphone"
       /\ \/ Includes(label, <<"microphone">>)
          \/ \E i \in 1..Len(label) : label[i] = "mic"
    \/ /\ type = "camera"
       /\ \/ Includes(label, <<"camera">>)
          \/ /\ Includes(label, <<"video">>)
             /\ \/ Includes(label, <<"turn", "off">>)
                \/ Includes(label, <<"turn", "on">>)

\* let state = 'unknown'; if ... 'turn off' ... else if ... 'turn on', 'is off'
StateOf(label) ==
    IF Includes(label, <<"turn", "off">>) THEN "on"
    ELSE IF Includes(label, <<"turn", "on">>) \/ Includes(label, <<"is", "off">>)
    THEN "off"
    ELSE "unknown"

\* for (const el of els), from element i on; the centre of the element
\* found is given by its place in the document
RECURSIVE FindFrom(_, _, _)
FindFrom(type, doc, i) ==
    IF i > Len(doc) THEN NotFound
    ELSE IF Excluded(Label(doc[i])) THEN FindFrom(type, doc, i + 1)
    ELSE IF IsMatch(type, Label(doc[i]))
    THEN [state |-> StateOf(Label(doc[i])), x |-> i]
    ELSE FindFrom(type, doc, i + 1)

JS_FIND_TOGGLE(type, doc) == FindFrom(type, doc, 1)

\* the page shows another document
document_changed ==
    /\ \E doc \in Documents : els' = doc
    /\ findType' = "none"
    /\ findResult' = NotFound
    /\ UNCHANGED <<orchVars, recVars, micVars>>

\* page.evaluate(JS_FIND_TOGGLE, button_type)
find_toggle ==
    /\ \E type \in Types :
          /\ findType' = type
          /\ findResult' = JS_FIND_TOGGLE(type, els)
    /\ UNCHANGED els
    /\ UNCHANGED <<orchVars, recVars, micVars>>

LocNext == document_changed \/ find_toggle

LocSpec == Init /\ [][LocNext]_vars

\* ---- claims ------------------------------------------------------------------
Teardown == pc \in {"cleanup", "done"}
Finalizing == pc \in {"finalize", "stopping"}
TaskRunning(t) == t \notin {"idle", "done"}

\* C1: whatever phase raised, the run does not reach teardown without
\* _stop_and_save_recording having been invoked.
C1_FinalizeBeforeTeardown ==
    Teardown => hist.finalizeCalls >= 1

\* a run that failed in the in-meeting camera re-verification, finalized in
\* the handler and was torn down
C1_Witness ==
    /\ pc = "done"
    /\ path = "handler"
    /\ hist.failPhase = "cam2"
    /\ hist.finalizeCalls = 1
    /\ hist.cleanupCalls = 1

\* C2: finalize (and the page's stopRecording) is never invoked while the
\* speech task or the monitor task is still running.
C2_FinalizeAfterBothTasks ==
    (Finalizing \/ hist.finalizeCalls > 0 \/ hist.stopCalls > 0)
        => (~TaskRunning(spPc) /\ ~TaskRunning(monPc))

\* the monitor saw the end while the clip was playing; stopRecording is
\* invoked after the speech task has played and finished
C2_Witness ==
    /\ pc = "stopping"
    /\ hist.endWhilePlaying
    /\ hist.spPlay = "true"
    /\ spPc = "done"

\* C3: a poll that meets the end text, a URL changed to one outside the
\* meeting domain or with a landing path, or an unreachable page sets
\* bot_active to false and ends the monitor without raising; the monitor is
\* never done while bot_active is true.
C3_Signal(p, last) ==
    \/ ~p.alive
    \/ p.text
    \/ (p.url # last /\ p.url \in {"landing", "outside"})

C3_MonitorEndsOnSignal ==
    /\ [][(monitor_meeting_end_poll /\ C3_Signal(seen', last_url))
            => (bot_active' = FALSE /\ monPc' = "done")]_vars
    /\ [](monPc \in {"done", "raised"} => (monPc = "done" /\ ~bot_active))

\* the monitor ended on a navigation to the landing page while the speech
\* task was enabling the microphone
C3_Witness ==
    /\ monPc = "done"
    /\ ~bot_active
    /\ seen = [alive |-> TRUE, text |-> FALSE, url |-> "landing"]
    /\ spPc = "enable"

\* C4: when bot_active is false at the end of the speech task's delay, the
\* task ends without enable, playback or a click, and the gather completes.
C4_SkipsSpeechWhenInactive ==
    /\ [][(spPc = "sleep" /\ ~bot_active /\ spPc' # spPc) => spPc' = "done"]_vars
    /\ [](hist.spSkipped
            => (/\ spPc = "done"
                /\ hist.spLog = <<>>
                /\ hist.spPlay = "none"
                /\ ~hist.spClicked))
    /\ ((pc = "active" /\ spPc = "sleep" /\ ~bot_active) ~> (pc = "finalize"))

\* the clip was there, the meeting ended during the delay, the speech was
\* skipped and the gather has returned
C4_Witness ==
    /\ pc = "finalize"
    /\ path = "success"
    /\ audio_data_url
    /\ hist.spSkipped
    /\ hist.spLog = <<>>

\* C5: once playSong has resolved normally, _disable_with_retry("microphone")
\* is the next thing the speech task invokes, however many of its 5 attempts
\* the enable before it needed.
C5_DisableAfterPlay ==
    hist.spPlay = "true"
        => (/\ hist.spLog = <<"resume", "enable", "inject", "play", "disable">>
            /\ hist.spEnableAttempt \in 1..EnableAttempts
            /\ spPc \in {"disable", "done"}
            /\ (spPc = "disable"
                  => (call.fn = "disable" /\ call.typ = "microphone"
                      /\ call.caller = "speech")))

\* the enable succeeded on its last attempt, the clip played to its end and
\* the speech task is done after the disable
C5_Witness ==
    /\ spPc = "done"
    /\ hist.spPlay = "true"
    /\ hist.spEnableAttempt = EnableAttempts
    /\ hist.spLog[Len(hist.spLog)] = "disable"

\* C6: an exception inside the speech sequence ends the speech task normally,
\* leaves the monitor and bot_active alone, and never takes the run into the
\* exception handler of start.
C6_SpeechExceptionContained ==
    /\ [](hist.spExc
            => (/\ spPc = "done"
                /\ path # "handler"
                /\ hist.failPhase = "none"))
    /\ [][(hist'.spExc /\ ~hist.spExc)
            => (monPc' = monPc /\ bot_active' = bot_active /\ pc' = pc)]_vars

\* playback threw, the monitor ended later and finalize was entered after
\* the gather returned
C6_Witness ==
    /\ pc = "cleanup"
    /\ path = "success"
    /\ hist.spExc
    /\ hist.spPlay = "throw"
    /\ hist.finalizeCalls = 1

\* C7: _disable_with_retry ends its search at the first query that reports
\* ON or OFF: OFF returns True with no click; ON clicks once, at the position
\* of that query, and returns True; each earlier result cost one sleep and
\* one retry; there is never a second click.
C7_DisableFirstDecisive ==
    call.fn = "disable"
        => (/\ obs.clicks <= 1
            /\ obs.decisive <= 1
            /\ obs.queries <= call.max
            /\ (obs.decisive = 1 => call.pc \in {"click", "ret", "raise"})
            /\ (call.pc = "click"
                  => (call.info.state = "on" /\ obs.clicks = 0
                      /\ obs.decisive = 1))
            /\ ((call.pc = "ret" /\ call.result)
                  => (/\ obs.decisive = 1
                      /\ call.info.state \in {"on", "off"}
                      /\ call.attempt = obs.queries
                      /\ obs.waits = obs.queries - 1
                      /\ (call.info.state = "off" => obs.clicks = 0)
                      /\ (call.info.state = "on"
                            => (obs.clicks = 1
                                /\ obs.clickPos = call.info.x))))
            /\ ((call.pc = "ret" /\ ~call.result)
                  => (obs.clicks = 0 /\ obs.decisive = 0)))

\* results [not found, not found, ON] for disable(microphone, 8): two waits,
\* one click at the position of the third query, True
C7_Witness ==
    /\ call.fn = "disable"
    /\ call.typ = "microphone"
    /\ call.max = PrejoinToggleAttempts
    /\ call.pc = "ret"
    /\ call.result
    /\ obs.queries = 3
    /\ obs.waits = 2
    /\ obs.clicks = 1
    /\ call.info = [state |-> "on", x |-> MaxPos]
    /\ obs.clickPos = MaxPos

\* C8: _enable_toggle returns True only on a query that reported ON (the
\* first of an attempt, or the re-query after a click); a re-query that does
\* not report ON starts the next attempt; it returns False once its 5
\* attempts are used up, and only then.
C8_EnableVerified ==
    /\ [](call.fn = "enable"
            => (/\ call.attempt \in 1..EnableAttempts
                /\ ((call.pc = "ret" /\ call.result)
                      => (call.info.state = "on" /\ obs.sawOn))
                /\ ((call.pc = "ret" /\ ~call.result)
                      => (call.attempt = EnableAttempts /\ ~obs.sawOn))
                /\ (call.pc = "verify" => obs.clicks >= 1)))
    /\ [][(call.fn = "enable" /\ call.pc = "verify"
             /\ call'.pc \in {"query", "ret"} /\ ~call'.result)
            => IF call.attempt < EnableAttempts
               THEN call'.pc = "query" /\ call'.attempt = call.attempt + 1
               ELSE call'.pc = "ret"]_vars

\* the first click was not confirmed, the cycle restarted, and the re-query
\* after the second click reported ON
C8_Witness ==
    /\ call.fn = "enable"
    /\ call.pc = "ret"
    /\ call.result
    /\ call.attempt = 2
    /\ obs.clicks = 2
    /\ obs.queries = 4

\* C9: _disable_with_retry that saw only not-found/UNKNOWN results returns
\* False without raising and start goes on to the next phase; the
\* START_RECORDING phase always ends in the ACTIVE phase, also when every
\* attempt failed.
C9_ExhaustionNotFatal ==
    /\ []((call.fn = "disable" /\ obs.queries = call.max /\ obs.decisive = 0)
            => (call.pc = "ret" /\ ~call.result))
    /\ [][(pc \in ToggleSites /\ call.pc = "ret" /\ ~call.result /\ pc' # pc)
            => (/\ pc' = (CASE pc = "mic1" -> "cam1"
                            [] pc = "cam1" -> "join_dismiss"
                            [] pc = "mic2" -> "cam2"
                            [] OTHER -> "start_rec")
                /\ path' = "none"
                /\ hist'.failPhase = "none")]_vars
    /\ [][(pc = "start_rec" /\ pc' # pc)
            => (pc' = "active" /\ bot_active' /\ hist'.failPhase = "none")]_vars

\* a disable ran out of attempts, the join was clicked, all 30 attempts and
\* the force-start failed, and the run is in the ACTIVE phase
C9_Witness ==
    /\ pc = "active"
    /\ bot_active
    /\ hist.mainExhausted
    /\ hist.joinClicks = 1
    /\ hist.recForced
    /\ ~recording_active

\* C10: when the pre-join UI is found in none of the 80 polls, or the join
\* control in none of the 40 iterations, the phase raises a timeout, no later
\* phase runs, and the run goes through finalize and then teardown.
C10_TimeoutAborts ==
    /\ []((pc = "prejoin" => iter <= PrejoinPolls)
          /\ (pc \in {"join_dismiss", "join_find", "join_click"}
                => iter <= JoinAttempts))
    /\ [][((pc = "prejoin" /\ iter = PrejoinPolls)
            \/ (pc = "join_dismiss" /\ iter = JoinAttempts))
            => (pc' = pc
                \/ (/\ pc' = "finalize"
                    /\ path' = "handler"
                    /\ hist'.failKind = "timeout"
                    /\ hist'.failPhase
                         = (IF pc = "prejoin" THEN "prejoin" ELSE "join")))]_vars
    /\ [](hist.failKind = "timeout"
            => (/\ pc \in {"finalize", "stopping", "cleanup", "done"}
                /\ path = "handler"
                /\ hist.joinClicks = 0
                /\ ~hist.recTried
                /\ ~hist.everActive
                /\ ~bot_active
                /\ ~recording_active
                /\ spPc = "idle"
                /\ monPc = "idle"
                /\ hist.spLog = <<>>
                /\ (Teardown => hist.finalizeCalls = 1)))

\* the join control was never found: timeout, finalize, teardown
C10_Witness ==
    /\ pc = "done"
    /\ hist.failKind = "timeout"
    /\ hist.failPhase = "join"
    /\ hist.finalizeCalls = 1
    /\ hist.cleanupCalls = 1

\* C11: finalize with recording_active false is a no-op: no stopRecording call,
\* no artifact, bot_active and recording_active as they were; and every
\* finalize ends with recording_active false, so that a second finalize right
\* after it is this no-op
C11_FinalizeNoop ==
    [][((pc = "finalize" /\ ~recording_active /\ pc' # "finalize")
           => (/\ pc' = "cleanup"
               /\ hist'.finalizeCalls = hist.finalizeCalls + 1
               /\ hist'.stopCalls = hist.stopCalls
               /\ hist'.artifacts = hist.artifacts
               /\ bot_active' = bot_active
               /\ recording_active' = recording_active))
       /\ ((Finalizing /\ ~Finalizing') => ~recording_active')]_vars

\* finalize has run without a recording, and, in another run, after one
C11_Witness ==
    /\ pc = "cleanup"
    /\ hist.finalizeCalls = 1
    /\ hist.stopCalls = 0
    /\ hist.artifacts = 0
    /\ hist.recTried
    /\ hist.everActive

\* ---- claims about the recorder ----------------------------------------------------
\* the last stop call was made without a recorder, with isRecording false, or
\* on a recorder that was no longer recording
StopWithoutRecording ==
    rh.callRec = "null" \/ ~rh.callFlag
        \/ RecorderState(rh.callRec) # "recording"

BufferEmpty == Len(recordedChunks) = 0 \/ totalRecBytes = 0

\* the chunks with data among the chunk events, in the order they arrived
ArrivedChunks ==
    SelectSeq(rh.arrivals, LAMBDA size : size > 0)

\* the artifact of the last stop call is the buffered chunks, and not empty
ArtifactOfBuffer ==
    /\ rh.value.data = ArrivedChunks
    /\ Len(rh.value.data) > 0
    /\ Sum(rh.value.data) > 0

StartWhileRecording == isRecording /\ rh'.start # "none"

\* C13: startRecording while a recording is in progress returns true and makes
\* no recorder; the recorder, its handler, the buffered chunks, the byte total
\* and isRecording are left as they were
C13_StartWhileRecordingIsNoop ==
    [][StartWhileRecording =>
          (/\ rh'.start = "true"
           /\ ~rh'.created
           /\ rh'.made = rh.made
           /\ UNCHANGED <<recCtx, mediaRecorder, onstop, recordedChunks,
                          totalRecBytes, isRecording>>)]_vars

\* the last operation was a start that made nothing, on a recorder that is
\* recording and has buffered chunks
C13_Witness ==
    /\ rh.start = "true"
    /\ ~rh.created
    /\ mediaRecorder = "recording"
    /\ isRecording
    /\ Len(recordedChunks) = 2
    /\ totalRecBytes = 3

\* the recorders that are capturing: the one mediaRecorder refers to, and an
\* earlier one that was replaced while it was recording
Capturing ==
    (IF mediaRecorder = "recording" THEN 1 ELSE 0)
        + (IF rh.orphan THEN 1 ELSE 0)

\* C14: at most one recorder captures at any time, and a recorder that
\* captures is the one isRecording speaks of
C14_OneRecorder ==
    /\ Capturing <= 1
    /\ mediaRecorder = "recording" => isRecording

\* the second recorder made is capturing and has delivered a chunk; the first
\* one is not capturing
C14_Witness ==
    /\ rh.made = 2
    /\ mediaRecorder = "recording"
    /\ Capturing = 1
    /\ Len(rh.arrivals) > 0

\* ---- claims about the mixer -------------------------------------------------------
\* C15: however often a track is delivered, at most one source of it is
\* connected to the mix, and a track in connectedTrackIds has exactly one
C15_OneSourcePerTrack ==
    \A t \in TrackIds :
        /\ tracks[t].sources <= 1
        /\ t \in connectedTrackIds => tracks[t].sources = 1

\* a track was delivered twice and is connected once
C15_Witness ==
    \E t \in TrackIds :
        /\ tracks[t].deliveries = 2
        /\ tracks[t].sources = 1
        /\ t \in connectedTrackIds

\* ---- claims about the virtual audio system ----------------------------------------
\* C18: a getUserMedia call that requests audio resolves to a stream whose
\* audio tracks are all the track of the virtual stream, with that track in it,
\* and the real getUserMedia is never asked for audio by such a call
C18_NoRealAudio ==
    mh.constraints.audio =>
        /\ \A t \in mh.result.tracks : t.kind = "audio" => ~t.real
        /\ mh.result.ok => VirtualTrack \in mh.result.tracks
        /\ ~mh.askedRealAudio

\* audio and video were requested and the real video request succeeded: the
\* stream has the virtual audio track and the real video track
C18_Witness ==
    /\ mh.constraints = [audio |-> TRUE, video |-> TRUE]
    /\ mh.result.ok
    /\ mh.result.tracks = {VirtualTrack, RealTrack("video")}

\* the virtual devices of a list
VirtualIn(devices) ==
    {i \in 1..Len(devices) : devices[i].deviceId = "virtual-persona-mic"}

RealAudioInput(devices) ==
    \E i \in 1..Len(devices) :
        devices[i].kind = "audioinput" /\ devices[i].deviceId = "default"

\* C19: the list enumerateDevices returns is the real list followed by one
\* virtual audio input when the real list has no audio input, and the real
\* list itself when it has one; never two virtual devices
C19_VirtualIffNoRealMic ==
    Len(mh.devices) > 0 =>
        /\ SubSeq(mh.devices, 1, Len(mh.real)) = mh.real
        /\ Cardinality(VirtualIn(mh.devices))
              = (IF RealAudioInput(mh.real) THEN 0 ELSE 1)
        /\ Len(mh.devices)
              = Len(mh.real) + Cardinality(VirtualIn(mh.devices))
        /\ \A i \in VirtualIn(mh.devices) : mh.devices[i] = VirtualDevice

\* two real devices, none an audio input: the list has a third, virtual one
C19_Witness ==
    /\ Len(mh.real) = 2
    /\ ~RealAudioInput(mh.real)
    /\ Len(mh.devices) = 3
    /\ mh.devices[3] = VirtualDevice

\* C20: the context, the destination, the gain node and the oscillator are
\* each made at most once; every acquire returns the stream of the one
\* destination, live unless a consumer has stopped its track; the oscillator
\* was started in a running context
C20_GraphMadeOnce ==
    /\ mh.made.ctx <= 1 /\ mh.made.dest <= 1
    /\ mh.made.gain <= 1 /\ mh.made.osc <= 1
    /\ silentOscillator <=> mh.made.osc = 1
    /\ mh.acquired.dest # 0 =>
          /\ mh.acquired.dest = 1
          /\ virtualStream.dest = 1
          /\ audioDestination = 1
          /\ mh.acquired.active \/ mh.stopped
    /\ mh.oscState \in {"none", "running"}

\* an acquire has gone through the whole of getVirtualAudioStream a second
\* time (the track was stopped) and has returned the stream of the first
\* destination; the oscillator runs
C20_Witness ==
    /\ mh.acquired.dest = 1
    /\ ~mh.acquired.active
    /\ mh.made = [ctx |-> 1, dest |-> 1, gain |-> 1, osc |-> 1]
    /\ silentOscillator
    /\ audioContext = "running"

\* ---- claims about playSong --------------------------------------------------------
\* the clips that are playing
Playing == {c \in Callers : song[c].pc = "playing"}

\* C16: a call that began while another call was in progress plays no clip
\* and returns false, at most one clip plays at any time, and isSpeaking is
\* true whenever a clip plays
C16_SingleFlight ==
    /\ \A c \in Callers :
          song[c].overlapped =>
              /\ song[c].pc # "playing"
              /\ song[c].pc = "done" => ~song[c].result
    /\ Cardinality(Playing) <= 1
    /\ Playing # {} => isSpeaking

\* C17: the clip is decoded at most once in the life of the page; a call that
\* began when songBuffer existed neither fetches nor decodes
C17_DecodeOnce ==
    /\ mh.decodes <= 1
    /\ \A c \in Callers :
          song[c].sawBuffer => song[c].pc \notin {"fetch", "decode"}

\* ---- claims about the flags and the phases of a run ------------------------------
\* a step of the speech task: its position moves, or the toggle call it made
\* begins, moves or returns
SpeechStep ==
    /\ spPc # "idle"
    /\ \/ spPc' # spPc
       \/ (call' # call /\ (call.caller = "speech" \/ call'.caller = "speech"))

\* a step of the monitor task
MonitorStep ==
    /\ monPc # "idle"
    /\ (monPc' # monPc \/ seen' # seen \/ last_url' # last_url)

\* C21: bot_active goes from true to false only in a step of the monitor; a
\* step of the speech task writes neither bot_active nor recording_active;
\* recording_active is written only by _start_recording and by
\* _stop_and_save_recording.
C21_DesignatedWriters ==
    [][/\ ((bot_active /\ ~bot_active')
            => (MonitorStep /\ monPc' = "done" /\ ~SpeechStep /\ pc' = pc))
       /\ (SpeechStep
            => (bot_active' = bot_active /\ recording_active' = recording_active))
       /\ ((recording_active' # recording_active)
            => (/\ pc \in {"start_rec", "stopping"}
                /\ ~SpeechStep
                /\ ~MonitorStep))]_vars

\* the recording was started, the speech task ran its sequence, the monitor
\* ended the session and finalize stopped the recording
C21_Witness ==
    /\ pc = "cleanup"
    /\ hist.everActive
    /\ hist.stopCalls = 1
    /\ hist.spLog # <<>>
    /\ monPc = "done"
    /\ ~bot_active
    /\ ~recording_active

\* what a poll reads when a termination signal holds: the page cannot be
\* reached, the end text is there, or the URL is outside the meeting domain
\* or on a landing path
C22_Signal(p) ==
    \/ ~p.alive
    \/ p.text
    \/ p.url \in {"landing", "outside"}

\* from some point on every poll of the monitor meets a termination signal
SignalStays == <>[][monitor_meeting_end_poll => C22_Signal(seen')]_vars

\* the run is over: the monitor has cleared bot_active, finalize and teardown
\* have run once each
EndedByMonitor ==
    /\ pc = "done"
    /\ ~bot_active
    /\ monPc = "done"
    /\ hist.finalizeCalls = 1
    /\ hist.cleanupCalls = 1

\* C22: when a termination signal eventually holds and stays, a run in the
\* ACTIVE phase eventually has bot_active cleared by the monitor and goes
\* through finalize and teardown; the ACTIVE phase is left only with
\* bot_active false, for finalize.
C22_CooperativeEnd ==
    /\ SignalStays => ((pc = "active") ~> EndedByMonitor)
    /\ [][(pc = "active" /\ pc' # pc)
            => (~bot_active /\ monPc = "done" /\ pc' = "finalize")]_vars

\* the phases of start in the order of its statements
PhaseRank(p) ==
    CASE p \in {"check_url", "rejected"} -> 0
      [] p \in {"launch", "setup"} -> 1
      [] p = "navigate" -> 2
      [] p = "prejoin" -> 3
      [] p = "fill_name" -> 4
      [] p = "mic1" -> 5
      [] p = "cam1" -> 6
      [] p \in {"join_dismiss", "join_find", "join_click"} -> 7
      [] p = "mic2" -> 8
      [] p = "cam2" -> 9
      [] p = "start_rec" -> 10
      [] p = "active" -> 11
      [] p \in {"finalize", "stopping"} -> 12
      [] p = "cleanup" -> 13
      [] OTHER -> 14

Failed == hist.failPhase # "none"

\* C23: the phases of a run follow each other in the order of start: a step
\* stays in its phase, goes on to the next one, or fails and goes to
\* finalize; the toggle calls of start and the two tasks run inside their
\* phase only; bot_active becomes true in the step that ends
\* _start_recording; after a failure only finalize and teardown run.
C23_PhaseOrder ==
    /\ [][\/ PhaseRank(pc') = PhaseRank(pc) /\ Failed' = Failed
          \/ PhaseRank(pc') = PhaseRank(pc) + 1 /\ Failed' = Failed
          \/ ~Failed /\ Failed' /\ pc' = "finalize"
                /\ PhaseRank(pc) \in 1..11]_vars
    /\ [][(~bot_active /\ bot_active')
            => (pc = "start_rec" /\ pc' = "active")]_vars
    /\ [](call.caller = "main" => pc \in ToggleSites)
    /\ []((TaskRunning(spPc) \/ TaskRunning(monPc)) => pc = "active")
    /\ [](Failed
            => (/\ pc \in {"finalize", "stopping", "cleanup", "done"}
                /\ path = "handler"
                /\ call = IdleCall
                /\ ~TaskRunning(spPc) /\ ~TaskRunning(monPc)))

\* a run that went through every phase and was torn down after the monitor
\* ended the session
C23_Witness ==
    /\ pc = "done"
    /\ path = "success"
    /\ hist.joinClicks = 1
    /\ hist.recTried
    /\ hist.everActive
    /\ hist.finalizeCalls = 1
    /\ hist.cleanupCalls = 1

\* C24: _start_recording makes at most 31 startRecording calls: in the phase
\* iter counts the calls made, all of which returned false or threw; a call
\* among the first 30 that returns true ends the phase with
\* recording_active true, one that returns false or throws leaves it false
\* and is followed by the next call; the 31st call ends the phase, with
\* recording_active true exactly when it returned true.
C24_StartRecordingCalls ==
    /\ [](pc = "start_rec"
            => (/\ iter \in 0..RecordingAttempts
                /\ ~recording_active
                /\ hist.recLast # "true"
                /\ (iter > 0 => hist.recLast \in {"false", "throw"})))
    /\ [][(pc = "start_rec" /\ (pc' # pc \/ iter' # iter))
            => (/\ hist'.recLast \in {"true", "false", "throw"}
                /\ iter + 1 <= RecordingAttempts + 1
                /\ (hist'.recLast = "true"
                      => (pc' = "active" /\ recording_active' /\ iter' = 0))
                /\ ((hist'.recLast # "true" /\ iter < RecordingAttempts)
                      => (/\ pc' = pc
                          /\ iter' = iter + 1
                          /\ ~recording_active'))
                /\ ((hist'.recLast # "true" /\ iter = RecordingAttempts)
                      => (pc' = "active" /\ ~recording_active'))
                /\ (recording_active' <=> hist'.recLast = "true"))]_vars

\* each of the 30 attempts returned false or threw and the force-start
\* returned true
C24_Witness ==
    /\ pc = "active"
    /\ hist.recForced
    /\ hist.recLast = "true"
    /\ recording_active

\* C25: in _click_join the search of an iteration runs after the dismissal
\* of that iteration, whether the dismissal returned or threw; a search that
\* finds the control is followed by the click, in the same iteration, and
\* the click ends _click_join; there is at most one click in a run.
C25_DismissThenSearch ==
    /\ [](pc \in {"join_find", "join_click"}
            => hist.joinDismiss \in {"ok", "throw"})
    /\ [](pc = "join_dismiss" => hist.joinDismiss = "none")
    /\ [][(pc = "join_dismiss" /\ iter < JoinAttempts /\ pc' # pc)
            => (/\ pc' = "join_find"
                /\ iter' = iter
                /\ hist'.failPhase = "none")]_vars
    /\ [][(pc = "join_find" /\ pc' = "join_dismiss")
            => (iter' = iter + 1 /\ hist'.joinClicks = 0)]_vars
    /\ [][(pc = "join_click" /\ pc' # pc)
            => (/\ hist.joinClicks = 0
                /\ hist'.joinClicks = 1
                /\ pc' \in {"mic2", "finalize"})]_vars
    /\ [][(hist'.joinClicks # hist.joinClicks) => pc = "join_click"]_vars
    /\ [](hist.joinClicks <= 1)
    /\ [](hist.joinClicks = 1 => PhaseRank(pc) > PhaseRank("join_click"))

\* the dismissal threw, the search of that iteration found the control and
\* the click was made
C25_Witness ==
    /\ pc = "mic2"
    /\ call = IdleCall
    /\ hist.joinClicks = 1
    /\ hist.joinDismiss = "throw"

\* ---- claims about the track set and the buffer ----------------------------------
\* the tracks that were connected to the mix and have not ended
LiveConnected == {t \in TrackIds : tracks[t].sources > 0 /\ ~tracks[t].ended}

\* C26: connectedTrackIds is the set of the ids of the tracks that were
\* connected and have not ended; the ended event of a track takes its id out
\* and leaves every other id in.
C26_TrackSet ==
    /\ [](connectedTrackIds = LiveConnected)
    /\ [][\A t \in TrackIds :
            (tracks'[t].ended /\ ~tracks[t].ended)
                => (/\ t \notin connectedTrackIds'
                    /\ \A u \in TrackIds \ {t} :
                          u \in connectedTrackIds' <=> u \in connectedTrackIds)]_vars

\* two tracks were connected, one of them ended and the other is in the set
C26_Witness ==
    /\ tracks[1].sources = 1
    /\ tracks[1].ended
    /\ tracks[2].sources = 1
    /\ connectedTrackIds = {2}

\* a startRecording call, and a track or ended event
StartCall == rh'.start # "none" /\ tracks' = tracks
TrackEvent == tracks' # tracks

\* a track or ended event leaves the recorder, its buffer and the sources of
\* the mix as they are, but for the source it adds
RecorderUntouched ==
    [][TrackEvent
         => (/\ mediaRecorder' = mediaRecorder
             /\ isRecording' = isRecording
             /\ onstop' = onstop
             /\ recordedChunks' = recordedChunks
             /\ totalRecBytes' = totalRecBytes
             /\ rh' = rh
             /\ \A t \in TrackIds : tracks'[t].sources >= tracks[t].sources)]_vars

IsPrefix(a, b) == Len(a) <= Len(b) /\ SubSeq(b, 1, Len(a)) = a

\* while one recording is active the buffer only grows
AppendOnly ==
    [][(isRecording /\ isRecording' /\ rh'.made = rh.made)
         => (/\ IsPrefix(recordedChunks, recordedChunks')
             /\ totalRecBytes' >= totalRecBytes)]_vars

\* C28: the buffer only grows while a recording is active, and once
\* stopRecording has resolved it holds no chunk and totalRecBytes is 0.
C28_BufferClearedOnStop ==
    /\ AppendOnly
    /\ [](rh.stop = "resolved"
            => (recordedChunks = <<>> /\ totalRecBytes = 0))

\* C29: a startRecording call that finds isRecording false and returns true
\* leaves an empty buffer and totalRecBytes 0, whatever the buffer held.
C29_FreshBufferOnStart ==
    [][(~isRecording /\ rh'.start = "true")
         => (/\ rh'.created
             /\ isRecording'
             /\ recordedChunks' = <<>>
             /\ totalRecBytes' = 0)]_vars

\* the second recording has just been started; the buffer of the first one
\* held two chunks
C29_Witness ==
    /\ rh.start = "true"
    /\ rh.created
    /\ rh.made = 2
    /\ rh.discarded = 2
    /\ recordedChunks = <<>>
    /\ totalRecBytes = 0

\* ---- claims about the toggle locator ------------------------------------------------
\* the elements the claim speaks of: the label matches the control asked
\* for and has none of the excluded words
ExcludedWords == {"settings", "option", "effect", "layout", "tile"}
HasExcludedWord(label) == \E w \in ExcludedWords : Includes(label, <<w>>)

Candidates ==
    {i \in 1..Len(els) :
        IsMatch(findType, Label(els[i])) /\ ~HasExcludedWord(Label(els[i]))}

First(S) == CHOOSE i \in S : \A j \in S : i <= j

\* C30: JS_FIND_TOGGLE returns the first element whose label matches the
\* control and has no excluded word, with state on for "turn off", else off
\* for "turn on" or "is off", else unknown; it returns null when there is no
\* such element.
C30_FirstMatchingToggle ==
    findType # "none" =>
        IF Candidates = {}
        THEN findResult = NotFound
        ELSE LET label == Label(els[First(Candidates)])
             IN /\ findResult.x = First(Candidates)
                /\ findResult.state =
                      (IF Includes(label, <<"turn", "off">>) THEN "on"
                       ELSE IF Includes(label, <<"turn", "on">>)
                               \/ Includes(label, <<"is", "off">>) THEN "off"
                       ELSE "unknown")
                /\ ~HasExcludedWord(Label(els[findResult.x]))

\* the microphone was asked for: the first element names the microphone
\* with an excluded word, the second has both "turn on" and "turn off" and
\* is returned with state on
C30_Witness ==
    /\ findType = "microphone"
    /\ Len(els) = 2
    /\ IsMatch("microphone", Label(els[1]))
    /\ HasExcludedWord(Label(els[1]))
    /\ Includes(Label(els[2]), <<"turn", "on">>)
    /\ findResult = [state |-> "on", x |-> 2]

\* ---- C31 ------------------------------------------------------------------
\* a step of the toggle call in progress that issues page.mouse.click
ClickStep == obs'.clicks = obs.clicks + 1
\* a step of the call that makes a locator query which returns
QueryStep == obs'.queries = obs.queries + 1

\* C31: a toggle click is issued only on the result of the locator query made
\* immediately before it: the call comes to its click only by a query of the
\* loop, which it began holding no result (info is assigned by that query);
\* what it holds then is not touched until the click, which goes to the
\* position held; _disable_with_retry clicks only on "on", _enable_toggle
\* only on "off", and no click follows a query that found nothing or
\* reported "unknown".
C31_ClickOnFreshQuery ==
    /\ [][(call'.pc = "click" /\ call.pc # "click")
            => (/\ call.pc = "query"
                /\ call.info = NotFound
                /\ QueryStep
                /\ call'.info \in LocResults \ {NotFound})]_vars
    /\ [][call.pc = "click"
            => (call' = call \/ (ClickStep /\ call'.pc # "click"))]_vars
    /\ [][ClickStep
            => (/\ call.pc = "click"
                /\ call.fn \in {"disable", "enable"}
                /\ call.info.state = (IF call.fn = "disable" THEN "on" ELSE "off")
                /\ obs'.clickPos = call.info.x)]_vars

\* _enable_toggle has clicked a second time, at position 2: its first click
\* was not verified, and the query of a later attempt reported "off" there
C31_Witness ==
    /\ call.fn = "enable"
    /\ call.pc = "verify"
    /\ obs.clicks = 2
    /\ obs.queries >= 3
    /\ obs.clickPos = 2

\* ---- C32 ------------------------------------------------------------------
\* the calls of one speech task, in the order of the code
SpeechOrder == <<"resume", "enable", "inject", "play", "disable">>
\* the playSong calls the speech task has made
PlayInvocations(log) == Cardinality({i \in DOMAIN log : log[i] = "play"})
\* _enable_toggle ends, for the speech task, without the value True
EnableFails ==
    /\ spPc = "enable"
    /\ spPc' # "enable"
    /\ ~(call.pc = "ret" /\ call.result)

\* C32: the speech task invokes the clip playback at most once in a run, and
\* only after its own _enable_toggle("microphone") has returned True; when
\* enable fails (returns False or raises) the task ends and playback is never
\* invoked; the calls of the task are made in the order resume, enable,
\* (inject,) play, disable.
C32_PlayOnceAfterEnable ==
    /\ [](/\ IsPrefix(hist.spLog, SpeechOrder)
          /\ PlayInvocations(hist.spLog) <= 1
          /\ (PlayInvocations(hist.spLog) = 1 \/ spPc \in {"inject", "playing"})
                => hist.spEnableAttempt \in 1..EnableAttempts)
    /\ [][EnableFails
            => (spPc' = "done" /\ PlayInvocations(hist'.spLog) = 0)]_vars
    /\ [][spPc = "done" => (spPc' = "done" /\ hist'.spLog = hist.spLog)]_vars

\* the speech task is over after an _enable_toggle that clicked and failed:
\* resume and enable were called, playback was not
C32_Witness ==
    /\ spPc = "done"
    /\ hist.spExc
    /\ hist.spClicked
    /\ hist.spEnableAttempt = 0
    /\ hist.spLog = <<"resume", "enable">>

\* ---- C33 ------------------------------------------------------------------
\* C33: a speech task that issued a click to turn the microphone on invokes
\* _disable_with_retry("microphone", 5) before it completes, whether
\* _enable_toggle ended in success or in failure and whether the playback
\* resolved, failed or threw.  (hist.spClicked: a toggle call of the speech
\* task has clicked; a click of its disable call implies that call.)
C33_DisableAfterEnableClick ==
    (spPc \in {"done", "raised"} /\ hist.spClicked)
        => \E i \in DOMAIN hist.spLog : hist.spLog[i] = "disable"

\* ---- C34 ------------------------------------------------------------------
\* self.bot_active goes from False to True, from True to False
Rises == ~bot_active /\ bot_active'
Falls == bot_active /\ ~bot_active'

\* C34: bot_active changes at most twice in a run: it is False from creation,
\* becomes True once, when start enters the ACTIVE phase; becomes False once,
\* in a poll of the monitor that detects the end; is never set to True
\* again; and it is False whenever finalize is reached on the success path.
C34_ActiveFlagLifecycle ==
    /\ [](~hist.everActive => ~bot_active)
    /\ [][Rises => (/\ ~hist.everActive
                    /\ pc = "start_rec"
                    /\ pc' = "active")]_vars
    /\ [][Falls => (/\ pc = "active"
                    /\ monPc = "poll"
                    /\ monPc' = "done")]_vars
    /\ [][hist.everActive => hist'.everActive]_vars
    /\ []((path = "success" /\ pc \in {"finalize", "stopping"}) => ~bot_active)

\* finalize is reached on the success path: the flag was True in the ACTIVE
\* phase, the monitor has set it to False, and the recording is to be stopped
C34_Witness ==
    /\ pc = "finalize"
    /\ path = "success"
    /\ hist.everActive
    /\ ~bot_active
    /\ monPc = "done"
    /\ recording_active

\* ---- C35 ------------------------------------------------------------------
\* C35: in every run the page's stopRecording is invoked at most once and only
\* while recording_active is True, at most one file is written, and once
\* _stop_and_save_recording has run recording_active is False on every path,
\* the one where the stop call throws included.
C35_StopOnce ==
    /\ hist.stopCalls <= 1
    /\ hist.artifacts <= hist.stopCalls
    /\ (pc = "stopping") => (recording_active /\ hist.stopCalls = 1)
    /\ (hist.stopCalls = 1) => hist.recTried
    /\ (hist.stopOutcome # "none") => (hist.stopCalls = 1 /\ pc # "stopping")
    /\ (pc \in {"cleanup", "done"})
          => (hist.finalizeCalls = 1 /\ ~recording_active)

\* the stop call threw: nothing was written, and the flag is False when the
\* teardown begins
C35_Witness ==
    /\ pc = "cleanup"
    /\ hist.stopCalls = 1
    /\ hist.stopOutcome = "throw"
    /\ hist.artifacts = 0
    /\ ~recording_active

\* ---- C36 ------------------------------------------------------------------
\* the phases of a run that passed the meeting-URL check
PassedUrlCheck == pc \notin {"check_url", "rejected"}
\* the objects there are to close: what _launch_browser has assigned
ToClose ==
    (IF hist.launched \in {"context", "page"} THEN {"context"} ELSE {})
    \cup (IF hist.launched # "none" THEN {"playwright"} ELSE {})

\* C36: in a run that passed the meeting-URL check _cleanup runs exactly once,
\* as the last step: after _stop_and_save_recording on the success path and on
\* every failure path; nothing runs after it; and a close step that fails
\* does not keep the later close steps from being made.  (A run leaves every
\* phase but ACTIVE by itself; it leaves ACTIVE when the monitor ends.)
C36_TeardownLast ==
    /\ [](/\ hist.cleanupCalls = (IF pc = "done" THEN 1 ELSE 0)
          /\ (pc \in {"cleanup", "done"}) => hist.finalizeCalls = 1
          /\ (pc = "done") => (PassedUrlCheck /\ hist.closed = ToClose))
    /\ [][pc = "done" => UNCHANGED <<orchVars>>]_vars
    /\ (PassedUrlCheck /\ pc # "active") ~> (pc \in {"active", "done"})

\* the run is over on the success path; closing the context failed and the
\* playwright object was stopped all the same
C36_Witness ==
    /\ pc = "done"
    /\ path = "success"
    /\ hist.cleanupCalls = 1
    /\ hist.closeFailed = {"context"}
    /\ hist.closed = {"context", "playwright"}

\* ---- C37 ------------------------------------------------------------------
\* C37: whenever stopRecording has resolved, with a data URL or with null,
\* isRecording is false, so that a startRecording after it makes a new
\* recorder and does not return true as a no-op.
C37_StopClearsRecording ==
    /\ [](rh.stop = "resolved" => ~isRecording)
    /\ [][(rh.stop = "resolved" /\ rh'.start = "true") => rh'.created]_vars

\* ---- C38 ------------------------------------------------------------------
\* the nodes connected to a destination or node
InputsOf(to) == {e.from : e \in {c \in Connections : c.to = to}}
\* the nodes whose output reaches recDest, directly or through the gain node
RecordedNodes ==
    InputsOf("recDest")
    \cup (IF \E n \in InputsOf("recDest") : n.kind = "gainNode"
          THEN InputsOf("gainNode") ELSE {})

\* C38: the recording mix holds remote participant audio only: every source
\* connected to recDest is the source of a remote audio track that a track
\* event of a peer connection delivered, and no node of the virtual
\* microphone (the clip's source, the gain node, the keep-alive oscillator)
\* reaches recDest.
C38_OnlyRemoteAudio ==
    /\ \A n \in RecordedNodes :
          /\ n.kind = "trackSource"
          /\ tracks[n.id].deliveries > 0
    /\ \A t \in connectedTrackIds : tracks[t].deliveries > 0
    /\ \A n \in InputsOf("audioDestination") \cup InputsOf("gainNode") :
          n.kind # "trackSource"

\* the clip plays through the gain node, the oscillator runs, and the one
\* source in the recording mix is that of the remote track
C38_Witness ==
    /\ gainNode
    /\ silentOscillator
    /\ songSource # 0
    /\ isSpeaking
    /\ RecordedNodes = {[kind |-> "trackSource", id |-> 1]}

\* ---- C39 ------------------------------------------------------------------
\* the locator queries and the clicks a toggle call may make
QueryBound == IF call.fn = "disable" THEN call.max ELSE 2 * EnableAttempts
ClickBound == IF call.fn = "disable" THEN 1 ELSE EnableAttempts
\* the call in progress is about to make a query, a click
AtQuery == IF call.pc \in {"query", "verify"} THEN 1 ELSE 0
AtClick == IF call.pc = "click" THEN 1 ELSE 0

\* C39: every toggle call ends within fixed bounds whatever the locator
\* returns: _disable_with_retry(type, max_attempts) makes at most max_attempts
\* locator queries and at most one click, _enable_toggle(type) at most 10
\* queries and at most 5 clicks (the one it is about to make counted), and
\* every step of a call makes a query or a click or ends the call.
C39_ToggleCallBounded ==
    /\ [](call.fn # "none"
            => (/\ obs.queries + AtQuery <= QueryBound
                /\ obs.clicks + AtClick <= ClickBound
                /\ call.attempt \in 1..call.max))
    /\ [][(call.fn # "none" /\ call' # call)
            => (\/ obs'.queries = obs.queries + 1
                \/ obs'.clicks = obs.clicks + 1
                \/ call'.pc = "raise"
                \/ call'.fn = "none")]_vars
    /\ [][(call.pc \in {"ret", "raise"} /\ call' # call) => call'.pc = "idle"]_vars

\* _enable_toggle returns False after 5 attempts of a click that was never
\* verified: 10 queries and 5 clicks
C39_Witness ==
    /\ call.fn = "enable"
    /\ call.pc = "ret"
    /\ ~call.result
    /\ obs.queries = 2 * EnableAttempts
    /\ obs.clicks = EnableAttempts
====
